---------------------------- MODULE Spec2Model ----------------------------
(***************************************************************************)
(* NanoDS v1.0.0 (src/nanods_bundled.h): Vector/Stack, List, List2, Ring   *)
(* and the seeded string-keyed Map, modelled as one state machine.         *)
(*                                                                         *)
(* Each behaviour exercises one container instance (under_test); the       *)
(* instances share nothing but the process-wide hash seed.  The build      *)
(* configuration (NANODS_HARD_SAFETY defined or not) and the element type  *)
(* of the macro expansion (its sizeof) are fixed for a behaviour.          *)
(***************************************************************************)
EXTENDS Integers, Sequences, FiniteSets, TLC

(* ------------------------------ bounds -------------------------------- *)
\* size_t is modelled as SizeBits-bit unsigned arithmetic
SizeBits == 6
\* element values are 1..MaxValue (0 is what memset writes)
MaxValue == 2
\* pushes are offered while size < MaxLen
MaxLen == 3
\* nv_reserve is offered the capacities 0..MaxReserve
MaxReserve == 3
\* SIZE of the NANODS_DEFINE_RING(T, SIZE) expansion under test
RingN == 3
\* the map is offered the keys Key(1)..Key(MaxKey)
MaxKey == 2
\* custom seeds are 1..MaxSeed; the entropy-derived seed is in 0..MaxSeed
MaxSeed == 1
\* nm_init_with_capacity is offered the bucket counts 0..MaxBuckets
MaxBuckets == 1
\* a one-bucket map is offered the keys Key(1)..Key(MaxChain): its chain
\* grows to MaxChain nodes
MaxChain == 3
\* nv_map and nv_filter are given source vectors of 0..MaxSrc elements: the
\* output vector outgrows its first block at the 9th push
MaxSrc == 9
\* a vector is pushed to until it holds MaxGrow elements: a vector of char
\* grows 8, 16, 32 and its 33rd push asks for a capacity that wraps
MaxGrow == 33

(* ------------------------- program constants -------------------------- *)
NANODS_FLAG_NONE == 0
NANODS_FLAG_SECURE == 1
\* sizeof(int), sizeof(double), sizeof(char): NANODS_DEFINE_VECTOR(int),
\* (double), (char)
SizeofInt == 4
SizeofDouble == 8
SizeofChar == 1
\* first capacity chosen by nv_push
InitialCapacity == 8
NULL == 0
\* sizeof(NanoMapEntry*) of the target
SizeofPtr == 2
\* bucket count nm_init_with_capacity substitutes for 0, and the one nm_set asks for
DEFAULT_BUCKET_COUNT == 16
LAZY_BUCKET_COUNT == 16
\* 2166136261 = FNV_BASIS_HI * 2^16 + FNV_BASIS_LO
FNV_BASIS_HI == 33052
FNV_BASIS_LO == 40389
\* 16777619 = FNV_PRIME_HI * 2^16 + FNV_PRIME_LO
FNV_PRIME_HI == 256
FNV_PRIME_LO == 403
\* indeterminate content of storage that was never written
Indet == -1

NANODS_OK == "NANODS_OK"
NANODS_ERR_NOMEM == "NANODS_ERR_NOMEM"
NANODS_ERR_BOUNDS == "NANODS_ERR_BOUNDS"
NANODS_ERR_EMPTY == "NANODS_ERR_EMPTY"
NANODS_ERR_OVERFLOW == "NANODS_ERR_OVERFLOW"
NANODS_ERR_NOTFOUND == "NANODS_ERR_NOTFOUND"
NANODS_ERR_NULL == "NANODS_ERR_NULL"
NANODS_ERR_FULL == "NANODS_ERR_FULL"
\* what `last.ret` holds after a void function, after a function that returns
\* a value and not an error code (the value is last.val), after a failed assert
VOID == "void"
VALUE == "value"
ABORT == "abort"

Pow2(n) == 2 ^ n
SIZE_MAX == Pow2(SizeBits) - 1
Wrap(x) == x % Pow2(SizeBits)
Values == 1..MaxValue
Flags == {NANODS_FLAG_NONE, NANODS_FLAG_SECURE}
ElemSizes == {SizeofInt, SizeofDouble}
Secure(flags) == flags % 2 = NANODS_FLAG_SECURE

VARIABLES
    under_test,     \* the container this behaviour exercises
    hard_safety,    \* TRUE: built with NANODS_HARD_SAFETY; FALSE: assert build
    sizeof_T,       \* sizeof(T) of the macro expansion
    aborted,        \* an assert has failed: the process is gone
    last,           \* [op, ret, val]: the last call and what it returned
    out,            \* the caller's output slot (T* out)
    vec,            \* NanoVector_T: [data, size, capacity, flags]
    vec_mem,        \* the block vec.data points to, one entry per T slot
    vec_hist,       \* history: the values pushed and not yet popped
    vec_freed,      \* history: the blocks the last call on the vector handed
                    \* to free(), each as it was at that moment
    ring,           \* NanoRing_T_SIZE: [data, head, tail, count, capacity, flags]
    ring_hist,      \* history: the values written and not yet read, oldest first
    list,           \* NanoList_T: [head, tail, size, flags]
    list_heap,      \* the live NanoListNode_T blocks: address -> [data, next]
    list_hist,      \* history: the values held, front to back
    list2,          \* NanoList2_T: [head, tail, size, flags]
    list2_heap,     \* the live NanoList2Node_T blocks: address -> [data, prev, next]
    list2_hist,     \* history: the values held, front to back
    g_nanods_hash_seed,         \* the process-wide hash seed
    g_nanods_seed_initialized,  \* 1 once nanods_seed_init has run
    map,            \* NanoMap: [buckets, bucket_count, size, seed, flags]
    map_buckets,    \* the block map.buckets points to: the chain heads
    map_heap,       \* the live NanoMapEntry blocks: address -> [key, value, next]
    map_hist,       \* history: the key -> value function the calls built
    map_ctor,       \* history: [done, seed, flags] as the constructor left them
    map_released,   \* history: the chain nodes the last call released
    map_order,      \* history: the keys held, in the order they were inserted
    fn_out,         \* NanoVector_T: the `out` vector of nv_map / nv_filter
    fn_mem,         \* the block fn_out.data points to
    it,             \* NanoIter: [type, ptr, internal, index, finished]
    miter,          \* NanoMapIterator: [map, bucket_idx, current]
    visited,        \* history: what the caller's loop has visited, in order
    g_nanods_allocator, \* the active NanoAllocator
    alloc_via,      \* history: the functions the container calls reached the
                    \* heap through since the allocator was last set
    vec_alloc,      \* history: [owner, from, to]; owner: the allocator whose
                    \* realloc_fn returned the block vec.data points to;
                    \* from, to: the last block handed to a realloc_fn or
                    \* free_fn came from allocator `from` and went to `to`
    map_b,          \* a second NanoMap, given the calls `map` is given
    map_b_buckets,  \* the block map_b.buckets points to
    map_b_heap,     \* the live NanoMapEntry blocks of map_b
    twin,           \* [made, seed, pending]: the two maps have been constructed,
                    \* the process-wide seed at that moment, the call `map` has
                    \* received and map_b has not
    arith,          \* [a, b, result]: the arguments of a checked multiply or
                    \* add and the caller's result slot (size_t* result)
    hashed          \* [key, seed, result]: the arguments of a call of
                    \* nanods_fnv1a_hash_seeded and what it returned, <<>>
                    \* before the call

commonVars == <<under_test, hard_safety, sizeof_T, aborted, last, out>>
vecVars == <<vec, vec_mem, vec_hist, vec_freed>>
ringVars == <<ring, ring_hist>>
listVars == <<list, list_heap, list_hist>>
list2Vars == <<list2, list2_heap, list2_hist>>
seedVars == <<g_nanods_hash_seed, g_nanods_seed_initialized>>
mapVars ==
    <<map, map_buckets, map_heap, map_hist, map_ctor, map_released, map_order>>
funVars == <<fn_out, fn_mem>>
iterVars == <<it, miter, visited>>
allocVars == <<g_nanods_allocator, alloc_via, vec_alloc>>
twinVars == <<map_b, map_b_buckets, map_b_heap, twin>>
arithVars == <<arith>>
hashVars == <<hashed>>
cfgVars == <<under_test, hard_safety, sizeof_T>>
notVec ==
    <<ringVars, listVars, list2Vars, seedVars, mapVars, funVars, iterVars,
      allocVars, twinVars, arithVars,
      hashVars>>
notRing ==
    <<vecVars, listVars, list2Vars, seedVars, mapVars, funVars, iterVars,
      allocVars, twinVars, arithVars,
      hashVars>>
notList ==
    <<vecVars, ringVars, list2Vars, seedVars, mapVars, funVars, iterVars,
      allocVars, twinVars, arithVars,
      hashVars>>
notList2 ==
    <<vecVars, ringVars, listVars, seedVars, mapVars, funVars, iterVars,
      allocVars, twinVars, arithVars,
      hashVars>>
notMap ==
    <<vecVars, ringVars, listVars, list2Vars, funVars, iterVars,
      allocVars, twinVars, arithVars,
      hashVars>>
notFun ==
    <<ringVars, listVars, list2Vars, seedVars, mapVars, iterVars,
      allocVars, twinVars, arithVars,
      hashVars>>
notIter ==
    <<vecVars, ringVars, listVars, list2Vars, seedVars, mapVars, funVars,
      allocVars, twinVars, arithVars,
      hashVars>>
notArith ==
    <<vecVars, ringVars, listVars, list2Vars, seedVars, mapVars, funVars,
      iterVars, allocVars, twinVars, hashVars>>
notHash ==
    <<vecVars, ringVars, listVars, list2Vars, seedVars, mapVars, funVars,
      iterVars, allocVars, twinVars, arithVars>>
notAlloc ==
    <<ringVars, listVars, list2Vars, seedVars, mapVars, funVars, iterVars,
      twinVars, arithVars,
      hashVars>>

(* ------------------------------ core.h -------------------------------- *)
\* the three outcomes of a NANODS_CHECK_* macro: the check passes, the
\* function returns `ret` (hardened build), or assert() aborts the process
\* fault: the bounds check written with > where the code has >=
NANODS_CHECK_BOUNDS_gt(idx, size, hard) ==
    IF idx > size THEN (IF hard THEN "return" ELSE "abort") ELSE "pass"

NANODS_CHECK_BOUNDS(idx, size, hard) ==
    IF idx >= size THEN (IF hard THEN "return" ELSE "abort") ELSE "pass"

NANODS_CHECK_EMPTY(size, hard) ==
    IF size = 0 THEN (IF hard THEN "return" ELSE "abort") ELSE "pass"

\* fault: the full check returning its error code in the assert build too
NANODS_CHECK_FULL_returns(size, capacity, hard) ==
    IF size >= capacity THEN "return" ELSE "pass"

NANODS_CHECK_FULL(size, capacity, hard) ==
    IF size >= capacity THEN (IF hard THEN "return" ELSE "abort") ELSE "pass"

\* fault: the multiply check written with >= where the code has >
nanods_check_mul_overflow_strict(a, b, result) ==
    IF a > 0 /\ b >= SIZE_MAX \div a
    THEN [overflow |-> 1, result |-> result]
    ELSE [overflow |-> 0, result |-> Wrap(a * b)]

\* `result` is the caller's slot; it is written only when there is no overflow
nanods_check_mul_overflow(a, b, result) ==
    IF a > 0 /\ b > SIZE_MAX \div a
    THEN [overflow |-> 1, result |-> result]
    ELSE [overflow |-> 0, result |-> Wrap(a * b)]

nanods_check_add_overflow(a, b, result) ==
    IF a > SIZE_MAX - b
    THEN [overflow |-> 1, result |-> result]
    ELSE [overflow |-> 0, result |-> Wrap(a + b)]

\* realloc(ptr, size): NULL when the allocation fails (mem_ok = FALSE), else
\* a block of `size` bytes holding the old content and indeterminate bytes
\* after it.  A block is a sequence of T slots.
NANODS_REALLOC(block, size, esize, mem_ok) ==
    IF mem_ok
    THEN [ptr |-> 1,
          mem |-> [i \in 1..(size \div esize) |->
                     IF i <= Len(block) THEN block[i] ELSE Indet]]
    ELSE [ptr |-> NULL, mem |-> block]

\* the address of the default allocator, whose three functions are malloc,
\* realloc and free of the C library, and the addresses of the caller's own
\* NanoAllocator objects
g_nanods_default_allocator == 1
Allocators == {2, 3}

\* allocator->malloc_fn, ->realloc_fn, ->free_fn: the function `fn` of the
\* allocator at that address
AllocatorFn(allocator, fn) == [of |-> allocator, fn |-> fn]

\* allocator: NULL or a NanoAllocator
nanods_set_allocator(allocator) ==
    IF allocator # NULL THEN allocator ELSE g_nanods_default_allocator

nanods_get_allocator(g) == g

\* what NANODS_MALLOC, NANODS_REALLOC and NANODS_FREE expand to in a
\* translation unit: a call through g_nanods_allocator if the unit defines
\* NANODS_IMPLEMENTATION before it includes the header (impl), a call of
\* malloc, realloc, free otherwise
HeapFn(impl, g, fn) ==
    IF impl THEN AllocatorFn(g, fn)
    ELSE AllocatorFn(g_nanods_default_allocator, fn)

\* memset(ptr, c, size) on a block of T slots
memset(block, c, size, esize) ==
    [i \in DOMAIN block |-> IF i <= size \div esize THEN c ELSE block[i]]

\* free(ptr): [mem, freed]; the block is gone, `freed` keeps what it held
NANODS_FREE(block, ptr) ==
    IF ptr # NULL THEN [mem |-> <<>>, freed |-> <<block>>]
    ELSE [mem |-> block, freed |-> <<>>]

nanods_secure_free(block, ptr, size, esize) ==
    IF ptr # NULL /\ size > 0
    THEN NANODS_FREE(memset(block, 0, size, esize), ptr)
    ELSE IF ptr # NULL THEN NANODS_FREE(block, ptr)
    ELSE [mem |-> block, freed |-> <<>>]

\* data[i] of a block; a read outside the block yields indeterminate content
Load(block, i) == IF (i + 1) \in DOMAIN block THEN block[i + 1] ELSE Indet
Store(block, i, v) ==
    IF (i + 1) \in DOMAIN block THEN [block EXCEPT ![i + 1] = v] ELSE block

(* --------------------------- vector_impl.h ---------------------------- *)
nv_init_ex(flags) ==
    [data |-> NULL, size |-> 0, capacity |-> 0, flags |-> flags]

nv_init == nv_init_ex(NANODS_FLAG_NONE)

\* fault: nv_reserve assigning realloc's result to vec->data before testing it
nv_reserve_drops(v, mem, new_capacity, esize, mem_ok) ==
    IF new_capacity <= v.capacity THEN [err |-> NANODS_OK, vec |-> v, mem |-> mem]
    ELSE LET m == nanods_check_mul_overflow(new_capacity, esize, 0) IN
         IF m.overflow = 1
         THEN [err |-> NANODS_ERR_OVERFLOW, vec |-> v, mem |-> mem]
         ELSE LET new_data == NANODS_REALLOC(mem, m.result, esize, mem_ok) IN
              IF new_data.ptr = NULL
              THEN [err |-> NANODS_ERR_NOMEM, vec |-> [v EXCEPT !.data = NULL],
                    mem |-> mem]
              ELSE [err |-> NANODS_OK,
                    vec |-> [v EXCEPT !.data = new_data.ptr,
                                      !.capacity = new_capacity],
                    mem |-> new_data.mem]

\* fault: nv_reserve multiplying without the overflow check, so that the
\* byte size it asks realloc for wraps
nv_reserve_wraps(v, mem, new_capacity, esize, mem_ok) ==
    IF new_capacity <= v.capacity THEN [err |-> NANODS_OK, vec |-> v, mem |-> mem]
    ELSE LET new_data == NANODS_REALLOC(mem, Wrap(new_capacity * esize), esize,
                                        mem_ok) IN
         IF new_data.ptr = NULL
         THEN [err |-> NANODS_ERR_NOMEM, vec |-> v, mem |-> mem]
         ELSE [err |-> NANODS_OK,
               vec |-> [v EXCEPT !.data = new_data.ptr,
                                 !.capacity = new_capacity],
               mem |-> new_data.mem]

\* [err, vec, mem]
nv_reserve(v, mem, new_capacity, esize, mem_ok) ==
    IF new_capacity <= v.capacity THEN [err |-> NANODS_OK, vec |-> v, mem |-> mem]
    ELSE LET m == nanods_check_mul_overflow(new_capacity, esize, 0) IN
         IF m.overflow = 1
         THEN [err |-> NANODS_ERR_OVERFLOW, vec |-> v, mem |-> mem]
         ELSE LET new_data == NANODS_REALLOC(mem, m.result, esize, mem_ok) IN
              IF new_data.ptr = NULL
              THEN [err |-> NANODS_ERR_NOMEM, vec |-> v, mem |-> mem]
              ELSE [err |-> NANODS_OK,
                    vec |-> [v EXCEPT !.data = new_data.ptr,
                                      !.capacity = new_capacity],
                    mem |-> new_data.mem]

\* fault: nv_push growing a full vector by eight slots where the code doubles
\* the capacity
nv_push_adds_eight(v, mem, value, esize, mem_ok) ==
    LET grown ==
          IF v.size >= v.capacity
          THEN LET new_capacity == IF v.capacity = 0 THEN InitialCapacity
                                   ELSE Wrap(v.capacity + InitialCapacity) IN
               IF new_capacity < v.capacity
               THEN [err |-> NANODS_ERR_OVERFLOW, vec |-> v, mem |-> mem]
               ELSE nv_reserve(v, mem, new_capacity, esize, mem_ok)
          ELSE [err |-> NANODS_OK, vec |-> v, mem |-> mem]
    IN IF grown.err # NANODS_OK THEN grown
       ELSE [err |-> NANODS_OK,
             vec |-> [grown.vec EXCEPT !.size = Wrap(grown.vec.size + 1)],
             mem |-> Store(grown.mem, grown.vec.size, value)]

nv_push(v, mem, value, esize, mem_ok) ==
    LET grown ==
          IF v.size >= v.capacity
          THEN LET new_capacity == IF v.capacity = 0 THEN InitialCapacity
                                   ELSE Wrap(v.capacity * 2) IN
               IF new_capacity < v.capacity
               THEN [err |-> NANODS_ERR_OVERFLOW, vec |-> v, mem |-> mem]
               ELSE nv_reserve(v, mem, new_capacity, esize, mem_ok)
          ELSE [err |-> NANODS_OK, vec |-> v, mem |-> mem]
    IN IF grown.err # NANODS_OK THEN grown
       ELSE [err |-> NANODS_OK,
             vec |-> [grown.vec EXCEPT !.size = Wrap(grown.vec.size + 1)],
             mem |-> Store(grown.mem, grown.vec.size, value)]

\* [chk, err, out]
nv_get(v, mem, index, o, hard) ==
    LET chk == NANODS_CHECK_BOUNDS(index, v.size, hard) IN
    IF chk = "pass" THEN [chk |-> chk, err |-> NANODS_OK, out |-> Load(mem, index)]
    ELSE [chk |-> chk, err |-> NANODS_ERR_BOUNDS, out |-> o]

\* [chk, err, mem]
nv_set(v, mem, index, value, hard) ==
    LET chk == NANODS_CHECK_BOUNDS(index, v.size, hard) IN
    IF chk = "pass"
    THEN [chk |-> chk, err |-> NANODS_OK, mem |-> Store(mem, index, value)]
    ELSE [chk |-> chk, err |-> NANODS_ERR_BOUNDS, mem |-> mem]

\* fault: nv_pop reading the oldest element, data[0], where the code reads
\* data[size - 1]
nv_pop_oldest(v, mem, o, has_out, hard) ==
    LET chk == NANODS_CHECK_EMPTY(v.size, hard) IN
    IF chk = "pass"
    THEN [chk |-> chk, err |-> NANODS_OK,
          vec |-> [v EXCEPT !.size = Wrap(v.size - 1)],
          out |-> IF has_out THEN Load(mem, 0) ELSE o]
    ELSE [chk |-> chk, err |-> NANODS_ERR_EMPTY, vec |-> v, out |-> o]

\* [chk, err, vec, out]; has_out: the caller passed a non-null `out`
nv_pop(v, mem, o, has_out, hard) ==
    LET chk == NANODS_CHECK_EMPTY(v.size, hard) IN
    IF chk = "pass"
    THEN [chk |-> chk, err |-> NANODS_OK,
          vec |-> [v EXCEPT !.size = Wrap(v.size - 1)],
          out |-> IF has_out THEN Load(mem, v.size - 1) ELSE o]
    ELSE [chk |-> chk, err |-> NANODS_ERR_EMPTY, vec |-> v, out |-> o]

nv_size(v) == v.size
nv_empty(v) == IF v.size = 0 THEN 1 ELSE 0
nv_clear(v) == [v EXCEPT !.size = 0]

\* fault: nv_free leaving capacity as it is
nv_free_keeps_capacity(v, mem, esize) ==
    IF v.data # NULL
    THEN LET r == IF Secure(v.flags)
                  THEN nanods_secure_free(mem, v.data, Wrap(v.capacity * esize),
                                          esize)
                  ELSE NANODS_FREE(mem, v.data) IN
         [vec |-> [v EXCEPT !.data = NULL, !.size = 0],
          mem |-> r.mem, freed |-> r.freed]
    ELSE [vec |-> [v EXCEPT !.size = 0], mem |-> mem, freed |-> <<>>]

\* fault: nv_free wiping size * sizeof(T) bytes where the code wipes
\* capacity * sizeof(T)
nv_free_wipes_size(v, mem, esize) ==
    IF v.data # NULL
    THEN LET r == IF Secure(v.flags)
                  THEN nanods_secure_free(mem, v.data, Wrap(v.size * esize),
                                          esize)
                  ELSE NANODS_FREE(mem, v.data) IN
         [vec |-> [v EXCEPT !.data = NULL, !.size = 0, !.capacity = 0],
          mem |-> r.mem, freed |-> r.freed]
    ELSE [vec |-> [v EXCEPT !.size = 0, !.capacity = 0], mem |-> mem,
          freed |-> <<>>]

\* [vec, mem, freed]; freed: the blocks handed to free(), each with the
\* content it had at that moment
nv_free(v, mem, esize) ==
    IF v.data # NULL
    THEN LET r == IF Secure(v.flags)
                  THEN nanods_secure_free(mem, v.data, Wrap(v.capacity * esize),
                                          esize)
                  ELSE NANODS_FREE(mem, v.data) IN
         [vec |-> [v EXCEPT !.data = NULL, !.size = 0, !.capacity = 0],
          mem |-> r.mem, freed |-> r.freed]
    ELSE [vec |-> [v EXCEPT !.size = 0, !.capacity = 0], mem |-> mem,
          freed |-> <<>>]

\* the functions and predicates a caller hands to nv_map and nv_filter
Funcs == {"identity", "successor"}
Apply(func, x) == IF func = "successor" THEN x + 1 ELSE x
Preds == {"always_true", "is_even", "always_false"}
Holds(predicate, x) ==
    CASE predicate = "always_true" -> TRUE
      [] predicate = "is_even" -> x % 2 = 0
      [] OTHER -> FALSE

\* fault: nv_map pushing vec->data[i] itself, func never called
RECURSIVE nv_map_loop_raw(_, _, _, _, _, _, _, _)
nv_map_loop_raw(v, mem, o, omem, i, func, esize, failing) ==
    IF i < v.size
    THEN LET r == nv_push(o, omem, Load(mem, i), esize,
                          o.capacity \notin failing) IN
         IF r.err # NANODS_OK
         THEN LET f == nv_free(r.vec, r.mem, esize) IN
              [err |-> r.err, vec |-> f.vec, mem |-> f.mem, freed |-> f.freed]
         ELSE nv_map_loop_raw(v, mem, r.vec, r.mem, i + 1, func, esize, failing)
    ELSE [err |-> NANODS_OK, vec |-> o, mem |-> omem, freed |-> <<>>]

\* the for loop of nv_map from index i on; `failing`: the capacities of `out`
\* at which realloc refuses to grow it.  [err, vec, mem, freed]
RECURSIVE nv_map_loop(_, _, _, _, _, _, _, _)
nv_map_loop(v, mem, o, omem, i, func, esize, failing) ==
    IF i < v.size
    THEN LET mapped == Apply(func, Load(mem, i))
             r == nv_push(o, omem, mapped, esize, o.capacity \notin failing) IN
         IF r.err # NANODS_OK
         THEN LET f == nv_free(r.vec, r.mem, esize) IN
              [err |-> r.err, vec |-> f.vec, mem |-> f.mem, freed |-> f.freed]
         ELSE nv_map_loop(v, mem, r.vec, r.mem, i + 1, func, esize, failing)
    ELSE [err |-> NANODS_OK, vec |-> o, mem |-> omem, freed |-> <<>>]

\* fault: nv_map initialising the output with the flags of the source
nv_map_inherits(v, mem, func, esize, failing) ==
    nv_map_loop(v, mem, nv_init_ex(v.flags), <<>>, 0, func, esize, failing)

nv_map(v, mem, func, esize, failing) ==
    nv_map_loop(v, mem, nv_init, <<>>, 0, func, esize, failing)

\* fault: nv_filter answering a failed push with nv_init(out) where the code
\* calls nv_free(out): the block of the partial output stays allocated
RECURSIVE nv_filter_loop_leaks(_, _, _, _, _, _, _, _)
nv_filter_loop_leaks(v, mem, o, omem, i, predicate, esize, failing) ==
    IF i < v.size
    THEN IF Holds(predicate, Load(mem, i))
         THEN LET r == nv_push(o, omem, Load(mem, i), esize,
                               o.capacity \notin failing) IN
              IF r.err # NANODS_OK
              THEN [err |-> r.err, vec |-> nv_init, mem |-> r.mem,
                    freed |-> <<>>]
              ELSE nv_filter_loop_leaks(v, mem, r.vec, r.mem, i + 1, predicate,
                                        esize, failing)
         ELSE nv_filter_loop_leaks(v, mem, o, omem, i + 1, predicate, esize,
                                   failing)
    ELSE [err |-> NANODS_OK, vec |-> o, mem |-> omem, freed |-> <<>>]

RECURSIVE nv_filter_loop(_, _, _, _, _, _, _, _)
nv_filter_loop(v, mem, o, omem, i, predicate, esize, failing) ==
    IF i < v.size
    THEN IF Holds(predicate, Load(mem, i))
         THEN LET r == nv_push(o, omem, Load(mem, i), esize,
                               o.capacity \notin failing) IN
              IF r.err # NANODS_OK
              THEN LET f == nv_free(r.vec, r.mem, esize) IN
                   [err |-> r.err, vec |-> f.vec, mem |-> f.mem,
                    freed |-> f.freed]
              ELSE nv_filter_loop(v, mem, r.vec, r.mem, i + 1, predicate, esize,
                                  failing)
         ELSE nv_filter_loop(v, mem, o, omem, i + 1, predicate, esize, failing)
    ELSE [err |-> NANODS_OK, vec |-> o, mem |-> omem, freed |-> <<>>]

nv_filter(v, mem, predicate, esize, failing) ==
    nv_filter_loop(v, mem, nv_init, <<>>, 0, predicate, esize, failing)

(* ---------------------------- stack_impl.h ---------------------------- *)
ns_push(v, mem, value, esize, mem_ok) == nv_push(v, mem, value, esize, mem_ok)
ns_free(v, mem, esize) == nv_free(v, mem, esize)
ns_pop(v, mem, o, has_out, hard) == nv_pop(v, mem, o, has_out, hard)

\* fault: ns_peek reading the oldest element, data[0], where the code reads
\* data[size - 1]
ns_peek_oldest(v, mem, o, hard) ==
    LET chk == NANODS_CHECK_EMPTY(v.size, hard) IN
    IF chk = "pass"
    THEN [chk |-> chk, err |-> NANODS_OK, out |-> Load(mem, 0)]
    ELSE [chk |-> chk, err |-> NANODS_ERR_EMPTY, out |-> o]

\* [chk, err, out]
ns_peek(v, mem, o, hard) ==
    LET chk == NANODS_CHECK_EMPTY(v.size, hard) IN
    IF chk = "pass"
    THEN [chk |-> chk, err |-> NANODS_OK, out |-> Load(mem, v.size - 1)]
    ELSE [chk |-> chk, err |-> NANODS_ERR_EMPTY, out |-> o]


(* ------------------------------ the heap ------------------------------ *)
\* A heap is a function from the addresses of the live blocks to their
\* content.  malloc hands out the lowest address that is not live: which
\* address a block gets is not observable by the library.
NewAddr(heap) ==
    CHOOSE a \in 1..(Cardinality(DOMAIN heap) + 1) :
        /\ a \notin DOMAIN heap
        /\ \A b \in 1..(a - 1) : b \in DOMAIN heap

Alloc(heap, a, block) ==
    [x \in DOMAIN heap \cup {a} |-> IF x = a THEN block ELSE heap[x]]

Release(heap, a) == [x \in DOMAIN heap \ {a} |-> heap[x]]

\* NANODS_MALLOC(size): NULL when the allocation fails
NANODS_MALLOC(heap, mem_ok) == IF mem_ok THEN NewAddr(heap) ELSE NULL

(* ----------------------------- list_impl.h ---------------------------- *)
nl_init_ex(flags) == [head |-> NULL, tail |-> NULL, size |-> 0, flags |-> flags]
nl_init == nl_init_ex(NANODS_FLAG_NONE)

\* *node of a singly linked node; reading through a pointer that is not a
\* live node yields indeterminate content
NodeAt(heap, a) ==
    IF a \in DOMAIN heap THEN heap[a] ELSE [data |-> Indet, next |-> NULL]

SetNext(heap, a, n) ==
    IF a \in DOMAIN heap THEN [heap EXCEPT ![a].next = n] ELSE heap

\* [err, list, heap]
nl_push_front(l, heap, value, mem_ok) ==
    LET node == NANODS_MALLOC(heap, mem_ok) IN
    IF node = NULL THEN [err |-> NANODS_ERR_NOMEM, list |-> l, heap |-> heap]
    ELSE [err |-> NANODS_OK,
          list |-> [l EXCEPT !.head = node,
                             !.tail = IF l.tail = NULL THEN node ELSE l.tail,
                             !.size = Wrap(l.size + 1)],
          heap |-> Alloc(heap, node, [data |-> value, next |-> l.head])]

\* fault: nl_push_back that does not link the old tail to the new node
nl_push_back_unlinked(l, heap, value, mem_ok) ==
    LET node == NANODS_MALLOC(heap, mem_ok) IN
    IF node = NULL THEN [err |-> NANODS_ERR_NOMEM, list |-> l, heap |-> heap]
    ELSE [err |-> NANODS_OK,
          list |-> [l EXCEPT !.head = IF l.tail # NULL THEN l.head ELSE node,
                             !.tail = node,
                             !.size = Wrap(l.size + 1)],
          heap |-> Alloc(heap, node, [data |-> value, next |-> NULL])]

nl_push_back(l, heap, value, mem_ok) ==
    LET node == NANODS_MALLOC(heap, mem_ok) IN
    IF node = NULL THEN [err |-> NANODS_ERR_NOMEM, list |-> l, heap |-> heap]
    ELSE LET h1 == Alloc(heap, node, [data |-> value, next |-> NULL]) IN
         [err |-> NANODS_OK,
          list |-> [l EXCEPT !.head = IF l.tail # NULL THEN l.head ELSE node,
                             !.tail = node,
                             !.size = Wrap(l.size + 1)],
          heap |-> IF l.tail # NULL THEN SetNext(h1, l.tail, node) ELSE h1]

\* fault: nl_pop_front that leaves tail alone when the list empties
nl_pop_front_keeps_tail(l, heap, o, has_out, hard) ==
    LET chk == NANODS_CHECK_EMPTY(l.size, hard) IN
    IF chk = "pass"
    THEN LET node == l.head IN
         [chk |-> chk, err |-> NANODS_OK,
          list |-> [l EXCEPT !.head = NodeAt(heap, node).next,
                             !.size = Wrap(l.size - 1)],
          heap |-> Release(heap, node),
          out |-> IF has_out THEN NodeAt(heap, node).data ELSE o]
    ELSE [chk |-> chk, err |-> NANODS_ERR_EMPTY, list |-> l, heap |-> heap,
          out |-> o]

\* [chk, err, list, heap, out]
nl_pop_front(l, heap, o, has_out, hard) ==
    LET chk == NANODS_CHECK_EMPTY(l.size, hard) IN
    IF chk = "pass"
    THEN LET node == l.head
             new_head == NodeAt(heap, node).next IN
         [chk |-> chk, err |-> NANODS_OK,
          list |-> [l EXCEPT !.head = new_head,
                             !.tail = IF new_head = NULL THEN NULL ELSE l.tail,
                             !.size = Wrap(l.size - 1)],
          heap |-> Release(heap, node),
          out |-> IF has_out THEN NodeAt(heap, node).data ELSE o]
    ELSE [chk |-> chk, err |-> NANODS_ERR_EMPTY, list |-> l, heap |-> heap,
          out |-> o]

nl_size(l) == l.size
nl_empty(l) == IF l.size = 0 THEN 1 ELSE 0

\* the addresses nl_free's loop visits from `current` on
RECURSIVE Walk(_, _, _)
Walk(heap, current, seen) ==
    IF current = NULL \/ current \notin DOMAIN heap \/ current \in seen
    THEN seen
    ELSE Walk(heap, heap[current].next, seen \cup {current})

\* [list, heap]
nl_free(l, heap) ==
    LET freed == Walk(heap, l.head, {}) IN
    [list |-> [l EXCEPT !.head = NULL, !.tail = NULL, !.size = 0],
     heap |-> [x \in DOMAIN heap \ freed |-> heap[x]]]

(* ---------------------------- list2_impl.h ---------------------------- *)
nl2_init_ex(flags) == [head |-> NULL, tail |-> NULL, size |-> 0, flags |-> flags]
nl2_init == nl2_init_ex(NANODS_FLAG_NONE)

Node2At(heap, a) ==
    IF a \in DOMAIN heap THEN heap[a]
    ELSE [data |-> Indet, prev |-> NULL, next |-> NULL]

SetPrev(heap, a, n) ==
    IF a \in DOMAIN heap THEN [heap EXCEPT ![a].prev = n] ELSE heap

\* fault: nl2_push_front leaving the prev link of the old head NULL
nl2_push_front_no_prev(l, heap, value, mem_ok) ==
    LET node == NANODS_MALLOC(heap, mem_ok) IN
    IF node = NULL THEN [err |-> NANODS_ERR_NOMEM, list |-> l, heap |-> heap]
    ELSE LET h1 == Alloc(heap, node,
                         [data |-> value, prev |-> NULL, next |-> l.head]) IN
         [err |-> NANODS_OK,
          list |-> [l EXCEPT !.head = node,
                             !.tail = IF l.head # NULL THEN l.tail ELSE node,
                             !.size = Wrap(l.size + 1)],
          heap |-> h1]

\* [err, list, heap]
nl2_push_front(l, heap, value, mem_ok) ==
    LET node == NANODS_MALLOC(heap, mem_ok) IN
    IF node = NULL THEN [err |-> NANODS_ERR_NOMEM, list |-> l, heap |-> heap]
    ELSE LET h1 == Alloc(heap, node,
                         [data |-> value, prev |-> NULL, next |-> l.head]) IN
         [err |-> NANODS_OK,
          list |-> [l EXCEPT !.head = node,
                             !.tail = IF l.head # NULL THEN l.tail ELSE node,
                             !.size = Wrap(l.size + 1)],
          heap |-> IF l.head # NULL THEN SetPrev(h1, l.head, node) ELSE h1]

nl2_push_back(l, heap, value, mem_ok) ==
    LET node == NANODS_MALLOC(heap, mem_ok) IN
    IF node = NULL THEN [err |-> NANODS_ERR_NOMEM, list |-> l, heap |-> heap]
    ELSE LET h1 == Alloc(heap, node,
                         [data |-> value, prev |-> l.tail, next |-> NULL]) IN
         [err |-> NANODS_OK,
          list |-> [l EXCEPT !.head = IF l.tail # NULL THEN l.head ELSE node,
                             !.tail = node,
                             !.size = Wrap(l.size + 1)],
          heap |-> IF l.tail # NULL THEN SetNext(h1, l.tail, node) ELSE h1]

\* [chk, err, list, heap, out]
nl2_pop_front(l, heap, o, has_out, hard) ==
    LET chk == NANODS_CHECK_EMPTY(l.size, hard) IN
    IF chk = "pass"
    THEN LET node == l.head
             new_head == Node2At(heap, node).next
             h1 == IF new_head # NULL THEN SetPrev(heap, new_head, NULL) ELSE heap
         IN [chk |-> chk, err |-> NANODS_OK,
             list |-> [l EXCEPT !.head = new_head,
                                !.tail = IF new_head # NULL THEN l.tail ELSE NULL,
                                !.size = Wrap(l.size - 1)],
             heap |-> Release(h1, node),
             out |-> IF has_out THEN Node2At(heap, node).data ELSE o]
    ELSE [chk |-> chk, err |-> NANODS_ERR_EMPTY, list |-> l, heap |-> heap,
          out |-> o]

\* fault: nl2_pop_back copying the data of the head node where the code copies
\* the data of the tail node
nl2_pop_back_head(l, heap, o, has_out, hard) ==
    LET chk == NANODS_CHECK_EMPTY(l.size, hard) IN
    IF chk = "pass"
    THEN LET node == l.tail
             new_tail == Node2At(heap, node).prev
             h1 == IF new_tail # NULL THEN SetNext(heap, new_tail, NULL) ELSE heap
         IN [chk |-> chk, err |-> NANODS_OK,
             list |-> [l EXCEPT !.tail = new_tail,
                                !.head = IF new_tail # NULL THEN l.head ELSE NULL,
                                !.size = Wrap(l.size - 1)],
             heap |-> Release(h1, node),
             out |-> IF has_out THEN Node2At(heap, l.head).data ELSE o]
    ELSE [chk |-> chk, err |-> NANODS_ERR_EMPTY, list |-> l, heap |-> heap,
          out |-> o]

nl2_pop_back(l, heap, o, has_out, hard) ==
    LET chk == NANODS_CHECK_EMPTY(l.size, hard) IN
    IF chk = "pass"
    THEN LET node == l.tail
             new_tail == Node2At(heap, node).prev
             h1 == IF new_tail # NULL THEN SetNext(heap, new_tail, NULL) ELSE heap
         IN [chk |-> chk, err |-> NANODS_OK,
             list |-> [l EXCEPT !.tail = new_tail,
                                !.head = IF new_tail # NULL THEN l.head ELSE NULL,
                                !.size = Wrap(l.size - 1)],
             heap |-> Release(h1, node),
             out |-> IF has_out THEN Node2At(heap, node).data ELSE o]
    ELSE [chk |-> chk, err |-> NANODS_ERR_EMPTY, list |-> l, heap |-> heap,
          out |-> o]

\* fault: nl2_insert_after leaving list->tail alone when the node it inserts
\* after is the tail
nl2_insert_after_keeps_tail(l, heap, node, value, mem_ok) ==
    LET new_node == NANODS_MALLOC(heap, mem_ok) IN
    IF new_node = NULL THEN [err |-> NANODS_ERR_NOMEM, list |-> l, heap |-> heap]
    ELSE LET nxt == Node2At(heap, node).next
             h1 == Alloc(heap, new_node,
                         [data |-> value, prev |-> node, next |-> nxt])
             h2 == IF nxt # NULL THEN SetPrev(h1, nxt, new_node) ELSE h1
         IN [err |-> NANODS_OK,
             list |-> [l EXCEPT !.size = Wrap(l.size + 1)],
             heap |-> SetNext(h2, node, new_node)]

\* [err, list, heap]; `node` is a caller-held node of the list
nl2_insert_after(l, heap, node, value, mem_ok) ==
    LET new_node == NANODS_MALLOC(heap, mem_ok) IN
    IF new_node = NULL THEN [err |-> NANODS_ERR_NOMEM, list |-> l, heap |-> heap]
    ELSE LET nxt == Node2At(heap, node).next
             h1 == Alloc(heap, new_node,
                         [data |-> value, prev |-> node, next |-> nxt])
             h2 == IF nxt # NULL THEN SetPrev(h1, nxt, new_node) ELSE h1
         IN [err |-> NANODS_OK,
             list |-> [l EXCEPT !.tail = IF nxt # NULL THEN l.tail ELSE new_node,
                                !.size = Wrap(l.size + 1)],
             heap |-> SetNext(h2, node, new_node)]

nl2_remove_node(l, heap, node) ==
    LET prv == Node2At(heap, node).prev
        nxt == Node2At(heap, node).next
        h1 == IF prv # NULL THEN SetNext(heap, prv, nxt) ELSE heap
        h2 == IF nxt # NULL THEN SetPrev(h1, nxt, prv) ELSE h1
    IN [err |-> NANODS_OK,
        list |-> [l EXCEPT !.head = IF prv # NULL THEN l.head ELSE nxt,
                           !.tail = IF nxt # NULL THEN l.tail ELSE prv,
                           !.size = Wrap(l.size - 1)],
        heap |-> Release(h2, node)]

nl2_size(l) == l.size
nl2_empty(l) == IF l.size = 0 THEN 1 ELSE 0

nl2_free(l, heap) ==
    LET freed == Walk(heap, l.head, {}) IN
    [list |-> [l EXCEPT !.head = NULL, !.tail = NULL, !.size = 0],
     heap |-> [x \in DOMAIN heap \ freed |-> heap[x]]]

(* ----------------------------- ring_impl.h ---------------------------- *)
\* `data` is the ring's own array as the caller's storage holds it: nr_init
\* does not write it
nr_init_ex(data, flags) ==
    [data |-> data, head |-> 0, tail |-> 0, count |-> 0,
     capacity |-> RingN, flags |-> flags]

nr_init(data) == nr_init_ex(data, NANODS_FLAG_NONE)

\* fault: nr_write advancing tail without the reduction modulo capacity
nr_write_nowrap(r, value, hard) ==
    LET chk == NANODS_CHECK_FULL(r.count, r.capacity, hard) IN
    IF chk = "pass"
    THEN [chk |-> chk, err |-> NANODS_OK,
          ring |-> [r EXCEPT !.data = Store(r.data, r.tail, value),
                             !.tail = Wrap(r.tail + 1),
                             !.count = Wrap(r.count + 1)]]
    ELSE [chk |-> chk, err |-> NANODS_ERR_FULL, ring |-> r]

\* [chk, err, ring]
nr_write(r, value, hard) ==
    LET chk == NANODS_CHECK_FULL(r.count, r.capacity, hard) IN
    IF chk = "pass"
    THEN [chk |-> chk, err |-> NANODS_OK,
          ring |-> [r EXCEPT !.data = Store(r.data, r.tail, value),
                             !.tail = Wrap(r.tail + 1) % r.capacity,
                             !.count = Wrap(r.count + 1)]]
    ELSE [chk |-> chk, err |-> NANODS_ERR_FULL, ring |-> r]

\* fault: nr_read advancing head without the reduction modulo capacity
nr_read_nowrap(r, o, hard) ==
    LET chk == NANODS_CHECK_EMPTY(r.count, hard) IN
    IF chk = "pass"
    THEN [chk |-> chk, err |-> NANODS_OK,
          ring |-> [r EXCEPT !.head = Wrap(r.head + 1),
                             !.count = Wrap(r.count - 1)],
          out |-> Load(r.data, r.head)]
    ELSE [chk |-> chk, err |-> NANODS_ERR_EMPTY, ring |-> r, out |-> o]

\* [chk, err, ring, out]
nr_read(r, o, hard) ==
    LET chk == NANODS_CHECK_EMPTY(r.count, hard) IN
    IF chk = "pass"
    THEN [chk |-> chk, err |-> NANODS_OK,
          ring |-> [r EXCEPT !.head = Wrap(r.head + 1) % r.capacity,
                             !.count = Wrap(r.count - 1)],
          out |-> Load(r.data, r.head)]
    ELSE [chk |-> chk, err |-> NANODS_ERR_EMPTY, ring |-> r, out |-> o]

\* [chk, err, out]
nr_peek(r, o, hard) ==
    LET chk == NANODS_CHECK_EMPTY(r.count, hard) IN
    IF chk = "pass"
    THEN [chk |-> chk, err |-> NANODS_OK, out |-> Load(r.data, r.head)]
    ELSE [chk |-> chk, err |-> NANODS_ERR_EMPTY, out |-> o]

nr_is_full(r) == IF r.count = r.capacity THEN 1 ELSE 0
nr_is_empty(r) == IF r.count = 0 THEN 1 ELSE 0
nr_size(r) == r.count
nr_capacity(r) == r.capacity

\* fault: nr_clear leaving tail where it is
nr_clear_keeps_tail(r) ==
    [r EXCEPT !.data = IF Secure(r.flags) THEN [i \in DOMAIN r.data |-> 0]
                       ELSE r.data,
              !.head = 0, !.count = 0]

nr_clear(r) ==
    [r EXCEPT !.data = IF Secure(r.flags) THEN [i \in DOMAIN r.data |-> 0]
                       ELSE r.data,
              !.head = 0, !.tail = 0, !.count = 0]

(* ------------------------------ map_impl.h ---------------------------- *)
\* keys are NUL-terminated strings, modelled as the sequence of their bytes
Key(i) == IF i % 2 = 1 THEN <<96 + i>> ELSE <<97, 96 + i>>
Keys == {Key(i) : i \in 1..MaxKey}
ChainKeys == {Key(i) : i \in 1..MaxChain}
Seeds == 1..MaxSeed
Entropy == 0..MaxSeed
\* void* values: the addresses of the caller's objects
Pointers == 1..MaxValue

\* a uint32_t is a pair <<hi, lo>> of 16-bit halves
Half == 65536
U32(n) == <<(n \div Half) % Half, n % Half>>

RECURSIVE Xor(_, _)
Xor(a, b) ==
    IF a = 0 THEN b
    ELSE IF b = 0 THEN a
    ELSE ((a + b) % 2) + 2 * Xor(a \div 2, b \div 2)

Xor32(x, y) == <<Xor(x[1], y[1]), Xor(x[2], y[2])>>

\* hash *= 16777619u, modulo 2^32
MulPrime(h) ==
    LET p == h[2] * FNV_PRIME_LO IN
    <<((h[1] * FNV_PRIME_LO) + (h[2] * FNV_PRIME_HI) + (p \div Half)) % Half, p % Half>>

\* fault: FNV-1, which multiplies before it folds the byte in, where the code
\* (FNV-1a) folds the byte in first
RECURSIVE Fnv1Fold(_, _)
Fnv1Fold(hash, key) ==
    IF key = <<>> THEN hash
    ELSE Fnv1Fold(Xor32(MulPrime(hash), <<0, Head(key)>>), Tail(key))

RECURSIVE Fnv1aFold(_, _)
Fnv1aFold(hash, key) ==
    IF key = <<>> THEN hash
    ELSE Fnv1aFold(MulPrime(Xor32(hash, <<0, Head(key)>>)), Tail(key))

nanods_fnv1a_hash_seeded(key, seed) ==
    Fnv1aFold(Xor32(<<FNV_BASIS_HI, FNV_BASIS_LO>>, U32(seed)), key)

\* hash % n for a uint32_t hash
Mod32(h, n) == (((h[1] % n) * (Half % n)) + (h[2] % n)) % n

\* nanods_seed_init: [seed, initialized]; `entropy` is what time and the
\* address of the seed variable give
nanods_seed_init(custom_seed, entropy) ==
    [seed |-> IF custom_seed = 0 THEN entropy ELSE custom_seed, initialized |-> 1]

\* nanods_get_seed: [value, seed, initialized]
nanods_get_seed(gseed, ginit, entropy) ==
    LET g == IF ginit = 0 THEN nanods_seed_init(0, entropy)
             ELSE [seed |-> gseed, initialized |-> ginit] IN
    [value |-> g.seed, seed |-> g.seed, initialized |-> g.initialized]

\* a NanoMap that no constructor has written yet
RawMap == [buckets |-> NULL, bucket_count |-> 0, size |-> 0, seed |-> 0,
           flags |-> NANODS_FLAG_NONE]

nm_init_ex(seed, flags) ==
    [buckets |-> NULL, bucket_count |-> 0, size |-> 0, seed |-> seed,
     flags |-> flags]

nm_init(seed) == nm_init_ex(seed, NANODS_FLAG_NONE)

\* fault: nm_init_with_capacity taking a bucket_count of 0 as it is where the
\* code puts 16 in its place
nm_init_with_capacity_zero(m, buckets, bucket_count, seed, mem_ok) ==
    LET bc == bucket_count
        mul == nanods_check_mul_overflow(bc, SizeofPtr, 0)
    IN IF mul.overflow = 1
       THEN [err |-> NANODS_ERR_OVERFLOW, map |-> m, buckets |-> buckets]
       ELSE IF ~mem_ok
       THEN [err |-> NANODS_ERR_NOMEM, map |-> [m EXCEPT !.buckets = NULL],
             buckets |-> buckets]
       ELSE [err |-> NANODS_OK,
             map |-> [buckets |-> 1, bucket_count |-> bc, size |-> 0,
                      seed |-> seed, flags |-> NANODS_FLAG_NONE],
             buckets |-> [i \in 1..(mul.result \div SizeofPtr) |-> NULL]]

\* [err, map, buckets]; `seed` is what nanods_get_seed returns when called
nm_init_with_capacity(m, buckets, bucket_count, seed, mem_ok) ==
    LET bc == IF bucket_count = 0 THEN DEFAULT_BUCKET_COUNT ELSE bucket_count
        mul == nanods_check_mul_overflow(bc, SizeofPtr, 0)
    IN IF mul.overflow = 1
       THEN [err |-> NANODS_ERR_OVERFLOW, map |-> m, buckets |-> buckets]
       ELSE IF ~mem_ok
       THEN [err |-> NANODS_ERR_NOMEM, map |-> [m EXCEPT !.buckets = NULL],
             buckets |-> buckets]
       ELSE [err |-> NANODS_OK,
             map |-> [buckets |-> 1, bucket_count |-> bc, size |-> 0,
                      seed |-> seed, flags |-> NANODS_FLAG_NONE],
             buckets |-> [i \in 1..(mul.result \div SizeofPtr) |-> NULL]]

nm_init_with_capacity_ex(m, buckets, bucket_count, flags, seed, mem_ok) ==
    LET r == nm_init_with_capacity(m, buckets, bucket_count, seed, mem_ok) IN
    IF r.err = NANODS_OK THEN [r EXCEPT !.map.flags = flags] ELSE r

EntryAt(heap, a) ==
    IF a \in DOMAIN heap THEN heap[a]
    ELSE [key |-> <<>>, value |-> NULL, next |-> NULL]

\* fault: a lookup that compares the key of the first entry of the chain only
ChainFindHead(heap, entry, key, fuel) ==
    IF entry = NULL \/ fuel = 0 THEN NULL
    ELSE IF EntryAt(heap, entry).key = key THEN entry
    ELSE NULL

\* the first entry with `key` from `entry` on, or NULL
RECURSIVE ChainFind(_, _, _, _)
ChainFind(heap, entry, key, fuel) ==
    IF entry = NULL \/ fuel = 0 THEN NULL
    ELSE IF EntryAt(heap, entry).key = key THEN entry
    ELSE ChainFind(heap, EntryAt(heap, entry).next, key, fuel - 1)

\* nanods_fnv1a_hash_seeded on the keys and the seeds a map can hold, computed
\* once
HashOf == [key \in Keys \cup ChainKeys, seed \in 0..MaxSeed |-> nanods_fnv1a_hash_seeded(key, seed)]

\* hash % map->bucket_count
BucketIdx(m, key) == Mod32(HashOf[key, m.seed], m.bucket_count)

\* fault: a lookup that hashes the key with seed 0 where the code hashes it
\* with map->seed
nm_find_entry_unseeded(m, buckets, heap, key) ==
    IF m.bucket_count = 0 THEN [entry |-> NULL, bucket_idx |-> Indet]
    ELSE LET bucket_idx == Mod32(HashOf[key, 0], m.bucket_count) IN
         [entry |-> ChainFind(heap, Load(buckets, bucket_idx), key,
                              Cardinality(DOMAIN heap) + 1),
          bucket_idx |-> bucket_idx]

\* [entry, bucket_idx]; bucket_idx is written only when there are buckets
nm_find_entry(m, buckets, heap, key) ==
    IF m.bucket_count = 0 THEN [entry |-> NULL, bucket_idx |-> Indet]
    ELSE LET bucket_idx == BucketIdx(m, key) IN
         [entry |-> ChainFind(heap, Load(buckets, bucket_idx), key,
                              Cardinality(DOMAIN heap) + 1),
          bucket_idx |-> bucket_idx]

\* fault: nm_set doubling the bucket array when the entries outnumber the
\* buckets, where the code never resizes
nm_set_rehashes(m, buckets, heap, key, value, gseed, ginit, entropy, mem_b, mem_e, mem_k) ==
    LET g == IF m.bucket_count = 0 THEN nanods_get_seed(gseed, ginit, entropy)
             ELSE [value |-> gseed, seed |-> gseed, initialized |-> ginit]
        lazy == IF m.bucket_count = 0
                THEN nm_init_with_capacity(m, buckets, LAZY_BUCKET_COUNT,
                                           g.value, mem_b)
                ELSE [err |-> NANODS_OK, map |-> m, buckets |-> buckets]
        \* nanods_get_seed runs only when the allocation has succeeded
        g1 == IF m.bucket_count = 0 /\ lazy.err # NANODS_OK
              THEN [seed |-> gseed, initialized |-> ginit]
              ELSE [seed |-> g.seed, initialized |-> g.initialized]
        found == nm_find_entry(lazy.map, lazy.buckets, heap, key)
        new_entry == NANODS_MALLOC(heap, mem_e)
        res(err, mp, bk, hp) ==
            [err |-> err, map |-> mp, buckets |-> bk, heap |-> hp,
             seed |-> g1.seed, initialized |-> g1.initialized]
    IN IF lazy.err # NANODS_OK THEN res(lazy.err, lazy.map, lazy.buckets, heap)
       ELSE IF found.entry # NULL
       THEN res(NANODS_OK, lazy.map, lazy.buckets,
                [heap EXCEPT ![found.entry].value = value])
       ELSE IF new_entry = NULL
       THEN res(NANODS_ERR_NOMEM, lazy.map, lazy.buckets, heap)
       ELSE IF ~mem_k
       THEN res(NANODS_ERR_NOMEM, lazy.map, lazy.buckets, heap)
       ELSE res(NANODS_OK,
                [lazy.map EXCEPT
                    !.size = Wrap(lazy.map.size + 1),
                    !.bucket_count = IF lazy.map.size + 1 > lazy.map.bucket_count
                                     THEN Wrap(2 * lazy.map.bucket_count)
                                     ELSE lazy.map.bucket_count],
                Store(IF lazy.map.size + 1 > lazy.map.bucket_count
                      THEN lazy.buckets
                           \o [x \in 1..lazy.map.bucket_count |-> NULL]
                      ELSE lazy.buckets,
                      found.bucket_idx, new_entry),
                Alloc(heap, new_entry,
                      [key |-> key, value |-> value,
                       next |-> Load(lazy.buckets, found.bucket_idx)]))

\* fault: nm_set returning without NANODS_FREE(new_entry) when the allocation
\* of the key fails
nm_set_leaks_entry(m, buckets, heap, key, value, gseed, ginit, entropy, mem_b, mem_e, mem_k) ==
    LET g == IF m.bucket_count = 0 THEN nanods_get_seed(gseed, ginit, entropy)
             ELSE [value |-> gseed, seed |-> gseed, initialized |-> ginit]
        lazy == IF m.bucket_count = 0
                THEN nm_init_with_capacity(m, buckets, LAZY_BUCKET_COUNT,
                                           g.value, mem_b)
                ELSE [err |-> NANODS_OK, map |-> m, buckets |-> buckets]
        \* nanods_get_seed runs only when the allocation has succeeded
        g1 == IF m.bucket_count = 0 /\ lazy.err # NANODS_OK
              THEN [seed |-> gseed, initialized |-> ginit]
              ELSE [seed |-> g.seed, initialized |-> g.initialized]
        found == nm_find_entry(lazy.map, lazy.buckets, heap, key)
        new_entry == NANODS_MALLOC(heap, mem_e)
        res(err, mp, bk, hp) ==
            [err |-> err, map |-> mp, buckets |-> bk, heap |-> hp,
             seed |-> g1.seed, initialized |-> g1.initialized]
    IN IF lazy.err # NANODS_OK THEN res(lazy.err, lazy.map, lazy.buckets, heap)
       ELSE IF found.entry # NULL
       THEN res(NANODS_OK, lazy.map, lazy.buckets,
                [heap EXCEPT ![found.entry].value = value])
       ELSE IF new_entry = NULL
       THEN res(NANODS_ERR_NOMEM, lazy.map, lazy.buckets, heap)
       ELSE IF ~mem_k
       THEN res(NANODS_ERR_NOMEM, lazy.map, lazy.buckets,
                Alloc(heap, new_entry,
                      [key |-> <<>>, value |-> NULL, next |-> NULL]))
       ELSE res(NANODS_OK,
                [lazy.map EXCEPT !.size = Wrap(lazy.map.size + 1)],
                Store(lazy.buckets, found.bucket_idx, new_entry),
                Alloc(heap, new_entry,
                      [key |-> key, value |-> value,
                       next |-> Load(lazy.buckets, found.bucket_idx)]))

\* [err, map, buckets, heap, seed, initialized]: mem_b, mem_e, mem_k tell
\* whether the allocation of the bucket array, the entry, the key succeeds
nm_set(m, buckets, heap, key, value, gseed, ginit, entropy, mem_b, mem_e, mem_k) ==
    LET g == IF m.bucket_count = 0 THEN nanods_get_seed(gseed, ginit, entropy)
             ELSE [value |-> gseed, seed |-> gseed, initialized |-> ginit]
        lazy == IF m.bucket_count = 0
                THEN nm_init_with_capacity(m, buckets, LAZY_BUCKET_COUNT,
                                           g.value, mem_b)
                ELSE [err |-> NANODS_OK, map |-> m, buckets |-> buckets]
        \* nanods_get_seed runs only when the allocation has succeeded
        g1 == IF m.bucket_count = 0 /\ lazy.err # NANODS_OK
              THEN [seed |-> gseed, initialized |-> ginit]
              ELSE [seed |-> g.seed, initialized |-> g.initialized]
        found == nm_find_entry(lazy.map, lazy.buckets, heap, key)
        new_entry == NANODS_MALLOC(heap, mem_e)
        res(err, mp, bk, hp) ==
            [err |-> err, map |-> mp, buckets |-> bk, heap |-> hp,
             seed |-> g1.seed, initialized |-> g1.initialized]
    IN IF lazy.err # NANODS_OK THEN res(lazy.err, lazy.map, lazy.buckets, heap)
       ELSE IF found.entry # NULL
       THEN res(NANODS_OK, lazy.map, lazy.buckets,
                [heap EXCEPT ![found.entry].value = value])
       ELSE IF new_entry = NULL
       THEN res(NANODS_ERR_NOMEM, lazy.map, lazy.buckets, heap)
       ELSE IF ~mem_k
       THEN res(NANODS_ERR_NOMEM, lazy.map, lazy.buckets, heap)
       ELSE res(NANODS_OK,
                [lazy.map EXCEPT !.size = Wrap(lazy.map.size + 1)],
                Store(lazy.buckets, found.bucket_idx, new_entry),
                Alloc(heap, new_entry,
                      [key |-> key, value |-> value,
                       next |-> Load(lazy.buckets, found.bucket_idx)]))

nm_get(m, buckets, heap, key) ==
    LET entry == nm_find_entry(m, buckets, heap, key).entry IN
    IF entry # NULL THEN EntryAt(heap, entry).value ELSE NULL

nm_has(m, buckets, heap, key) ==
    IF nm_find_entry(m, buckets, heap, key).entry # NULL THEN 1 ELSE 0

\* the entry whose next link is `target`, from `entry` on, or NULL
RECURSIVE ChainPred(_, _, _, _)
ChainPred(heap, entry, target, fuel) ==
    IF entry = NULL \/ fuel = 0 THEN NULL
    ELSE IF EntryAt(heap, entry).next = target THEN entry
    ELSE ChainPred(heap, EntryAt(heap, entry).next, target, fuel - 1)

\* what a release records: were the key bytes and the entry zeroed first
Released(secure) == [key_wiped |-> secure, entry_wiped |-> secure]

\* fault: nm_remove ending the chain at the predecessor of the node it unlinks
nm_remove_cuts(m, buckets, heap, key) ==
    IF m.bucket_count = 0
    THEN [err |-> NANODS_ERR_NOTFOUND, map |-> m, buckets |-> buckets,
          heap |-> heap, released |-> {}]
    ELSE LET bucket_idx == BucketIdx(m, key)
             fuel == Cardinality(DOMAIN heap) + 1
             first == Load(buckets, bucket_idx)
             entry == ChainFind(heap, first, key, fuel)
             nxt == EntryAt(heap, entry).next
         IN IF entry = NULL
            THEN [err |-> NANODS_ERR_NOTFOUND, map |-> m, buckets |-> buckets,
                  heap |-> heap, released |-> {}]
            ELSE [err |-> NANODS_OK,
                  map |-> [m EXCEPT !.size = Wrap(m.size - 1)],
                  buckets |-> IF entry = first
                              THEN Store(buckets, bucket_idx, nxt) ELSE buckets,
                  heap |-> Release(IF entry = first THEN heap
                                   ELSE SetNext(heap,
                                                ChainPred(heap, first, entry, fuel),
                                                NULL),
                                   entry),
                  released |-> {Released(Secure(m.flags))}]

\* fault: nm_remove leaving size as it is
nm_remove_keeps_size(m, buckets, heap, key) ==
    IF m.bucket_count = 0
    THEN [err |-> NANODS_ERR_NOTFOUND, map |-> m, buckets |-> buckets,
          heap |-> heap, released |-> {}]
    ELSE LET bucket_idx == BucketIdx(m, key)
             fuel == Cardinality(DOMAIN heap) + 1
             first == Load(buckets, bucket_idx)
             entry == ChainFind(heap, first, key, fuel)
             nxt == EntryAt(heap, entry).next
             secure == Secure(m.flags)
         IN IF entry = NULL
            THEN [err |-> NANODS_ERR_NOTFOUND, map |-> m, buckets |-> buckets,
                  heap |-> heap, released |-> {}]
            ELSE [err |-> NANODS_OK,
                  map |-> m,
                  buckets |-> IF entry = first
                              THEN Store(buckets, bucket_idx, nxt) ELSE buckets,
                  heap |-> Release(IF entry = first THEN heap
                                   ELSE SetNext(heap,
                                                ChainPred(heap, first, entry, fuel),
                                                nxt),
                                   entry),
                  released |-> {Released(secure)}]

\* [err, map, buckets, heap, released]
nm_remove(m, buckets, heap, key) ==
    IF m.bucket_count = 0
    THEN [err |-> NANODS_ERR_NOTFOUND, map |-> m, buckets |-> buckets,
          heap |-> heap, released |-> {}]
    ELSE LET bucket_idx == BucketIdx(m, key)
             fuel == Cardinality(DOMAIN heap) + 1
             first == Load(buckets, bucket_idx)
             entry == ChainFind(heap, first, key, fuel)
             nxt == EntryAt(heap, entry).next
             secure == Secure(m.flags)
         IN IF entry = NULL
            THEN [err |-> NANODS_ERR_NOTFOUND, map |-> m, buckets |-> buckets,
                  heap |-> heap, released |-> {}]
            ELSE [err |-> NANODS_OK,
                  map |-> [m EXCEPT !.size = Wrap(m.size - 1)],
                  buckets |-> IF entry = first
                              THEN Store(buckets, bucket_idx, nxt) ELSE buckets,
                  heap |-> Release(IF entry = first THEN heap
                                   ELSE SetNext(heap,
                                                ChainPred(heap, first, entry, fuel),
                                                nxt),
                                   entry),
                  released |-> {Released(secure)}]

nm_size(m) == m.size
nm_empty(m) == IF m.size = 0 THEN 1 ELSE 0

\* the entries on the chains of the buckets
ChainNodes(buckets, heap) ==
    UNION {Walk(heap, buckets[i], {}) : i \in DOMAIN buckets}

\* fault: nm_clear releasing the first node of each chain only
nm_clear_heads(m, buckets, heap) ==
    LET n == IF m.bucket_count <= Len(buckets) THEN m.bucket_count ELSE Len(buckets)
        freed == {buckets[i] : i \in 1..n} \ {NULL}
    IN [map |-> [m EXCEPT !.size = 0],
        buckets |-> [i \in DOMAIN buckets |-> IF i <= n THEN NULL ELSE buckets[i]],
        heap |-> [x \in DOMAIN heap \ freed |-> heap[x]],
        released |-> {Released(Secure(m.flags)) : x \in freed}]

\* [map, buckets, heap, released]
nm_clear(m, buckets, heap) ==
    LET n == IF m.bucket_count <= Len(buckets) THEN m.bucket_count ELSE Len(buckets)
        freed == ChainNodes(SubSeq(buckets, 1, n), heap)
    IN [map |-> [m EXCEPT !.size = 0],
        buckets |-> [i \in DOMAIN buckets |-> IF i <= n THEN NULL ELSE buckets[i]],
        heap |-> [x \in DOMAIN heap \ freed |-> heap[x]],
        released |-> {Released(Secure(m.flags)) : x \in freed}]

nm_free(m, buckets, heap) ==
    LET c == nm_clear(m, buckets, heap) IN
    [map |-> [c.map EXCEPT !.buckets = NULL, !.bucket_count = 0],
     buckets |-> <<>>,
     heap |-> c.heap,
     released |-> c.released]

(* --------------------------- iterator_impl.h -------------------------- *)
\* [map, bucket_idx, current]; map: NULL until nm_iter_init has bound the
\* cursor to the map
NoMapIter == [map |-> NULL, bucket_idx |-> 0, current |-> NULL]

\* the first index i in from .. bucket_count - 1 with buckets[i] non-null,
\* bucket_count when there is none: where the scanning loops stop
RECURSIVE ScanBuckets(_, _, _)
ScanBuckets(m, buckets, from) ==
    IF from >= m.bucket_count THEN m.bucket_count
    ELSE IF Load(buckets, from) # NULL THEN from
    ELSE ScanBuckets(m, buckets, from + 1)

nm_iter_init(m, buckets) ==
    LET i == ScanBuckets(m, buckets, 0) IN
    IF i < m.bucket_count
    THEN [map |-> 1, bucket_idx |-> i, current |-> Load(buckets, i)]
    ELSE [map |-> 1, bucket_idx |-> 0, current |-> NULL]

\* fault: nm_iter_next leaving the cursor on the entry it has just handed out
nm_iter_next_stuck(iter, m, buckets, heap) ==
    IF iter.current = NULL
    THEN [err |-> NANODS_ERR_EMPTY, iter |-> iter, key |-> <<>>, value |-> NULL]
    ELSE [err |-> NANODS_OK, iter |-> iter,
          key |-> EntryAt(heap, iter.current).key,
          value |-> EntryAt(heap, iter.current).value]

\* [err, iter, key, value]; key, value: what *out_key, *out_value receive
nm_iter_next(iter, m, buckets, heap) ==
    IF iter.current = NULL
    THEN [err |-> NANODS_ERR_EMPTY, iter |-> iter, key |-> <<>>, value |-> NULL]
    ELSE LET e == EntryAt(heap, iter.current)
             i == ScanBuckets(m, buckets, Wrap(iter.bucket_idx + 1)) IN
         [err |-> NANODS_OK,
          iter |-> IF e.next # NULL THEN [iter EXCEPT !.current = e.next]
                   ELSE [iter EXCEPT !.bucket_idx = i,
                                     !.current = IF i < m.bucket_count
                                                 THEN Load(buckets, i)
                                                 ELSE NULL],
          key |-> e.key, value |-> e.value]

NANODS_ITER_VECTOR == "NANODS_ITER_VECTOR"
NANODS_ITER_LIST == "NANODS_ITER_LIST"
NANODS_ITER_LIST2 == "NANODS_ITER_LIST2"
NANODS_ITER_MAP == "NANODS_ITER_MAP"

\* no NanoIter has been made
NoIter ==
    [type |-> "none", ptr |-> NULL, internal |-> NULL, index |-> 0,
     finished |-> 0]

\* &vec->data[i]
SlotAddr(i) == i + 1

nv_iter(v) ==
    [type |-> NANODS_ITER_VECTOR,
     ptr |-> IF v.size > 0 THEN SlotAddr(0) ELSE NULL,
     internal |-> NULL, index |-> 0,
     finished |-> IF v.size = 0 THEN 1 ELSE 0]

\* fault: nv_iter_next testing index > size where the code tests index >= size
nv_iter_next_past(i, v) ==
    IF i.finished = 1 THEN [ret |-> 0, it |-> i]
    ELSE LET index == Wrap(i.index + 1) IN
         IF index > v.size
         THEN [ret |-> 0,
               it |-> [i EXCEPT !.index = index, !.finished = 1, !.ptr = NULL]]
         ELSE [ret |-> 1,
               it |-> [i EXCEPT !.index = index, !.ptr = SlotAddr(index)]]

\* [ret, it]
nv_iter_next(i, v) ==
    IF i.finished = 1 THEN [ret |-> 0, it |-> i]
    ELSE LET index == Wrap(i.index + 1) IN
         IF index >= v.size
         THEN [ret |-> 0,
               it |-> [i EXCEPT !.index = index, !.finished = 1, !.ptr = NULL]]
         ELSE [ret |-> 1,
               it |-> [i EXCEPT !.index = index, !.ptr = SlotAddr(index)]]

\* nl_iter and nl2_iter; &node->data is the address of the node
ListIter(type, l) ==
    [type |-> type, ptr |-> l.head, internal |-> l.head, index |-> 0,
     finished |-> IF l.head = NULL THEN 1 ELSE 0]

nl_iter(l) == ListIter(NANODS_ITER_LIST, l)
nl2_iter(l) == ListIter(NANODS_ITER_LIST2, l)

\* nl_iter_next and nl2_iter_next; next: node->next of the node at `internal`
ListIterNext(i, next) ==
    IF i.finished = 1 THEN [ret |-> 0, it |-> i]
    ELSE IF i.internal = NULL \/ next = NULL
    THEN [ret |-> 0,
          it |-> [i EXCEPT !.finished = 1, !.ptr = NULL, !.internal = NULL]]
    ELSE [ret |-> 1,
          it |-> [i EXCEPT !.internal = next, !.ptr = next,
                           !.index = Wrap(i.index + 1)]]

nl_iter_next(i, heap) == ListIterNext(i, NodeAt(heap, i.internal).next)
nl2_iter_next(i, heap) == ListIterNext(i, Node2At(heap, i.internal).next)

\* [it, iter]; mem_ok: malloc(sizeof(NanoMapIterator)) succeeds; iter: the
\* NanoMapIterator at it.internal
nm_iter(m, buckets, mem_ok) ==
    [it |-> [type |-> NANODS_ITER_MAP, ptr |-> NULL,
             internal |-> IF mem_ok THEN 1 ELSE NULL, index |-> 0,
             finished |-> IF m.size = 0 THEN 1 ELSE 0],
     iter |-> IF mem_ok THEN nm_iter_init(m, buckets) ELSE NoMapIter]

nm_iter_has_next(i, iter) ==
    IF i.finished = 1 \/ i.internal = NULL THEN 0
    ELSE IF iter.current # NULL THEN 1 ELSE 0

\* [it, iter]
nm_iter_free(i, iter) ==
    IF i.internal # NULL /\ i.type = NANODS_ITER_MAP
    THEN [it |-> [i EXCEPT !.internal = NULL], iter |-> NoMapIter]
    ELSE [it |-> i, iter |-> iter]

nanods_iter_has_next(i, iter) ==
    CASE i.type \in {NANODS_ITER_VECTOR, NANODS_ITER_LIST, NANODS_ITER_LIST2} ->
             IF i.finished = 1 THEN 0 ELSE 1
      [] i.type = NANODS_ITER_MAP -> nm_iter_has_next(i, iter)
      [] OTHER -> 0

(* ------------------------- calls and returns -------------------------- *)
\* no checked multiply or add is under test; the result slot is uninitialised
NoArith == [a |-> 0, b |-> 0, result |-> Indet]
\* no call of the hash function is under test
NoHash == [key |-> <<>>, seed |-> 0, result |-> <<>>]

Containers == {"vector", "ring", "list", "list2", "map"}

\* a call on container c can be made: the process has not aborted
Live(c) == under_test = c /\ ~aborted

\* the call `op` returns `ret` / fails an assert
Return(op, ret) ==
    last' = [op |-> op, ret |-> ret, val |-> 0] /\ aborted' = FALSE
\* the call returns the value `val` (a pointer, an int, a seed)
ReturnValue(op, val) ==
    last' = [op |-> op, ret |-> VALUE, val |-> val] /\ aborted' = FALSE
Abort(op) ==
    last' = [op |-> op, ret |-> ABORT, val |-> 0] /\ aborted' = TRUE

Front(s) == IF Len(s) = 0 THEN s ELSE SubSeq(s, 1, Len(s) - 1)
Last(s) == s[Len(s)]

(* --------------------------- vector actions --------------------------- *)
NvReserve(new_capacity, mem_ok) ==
    /\ Live("vector")
    /\ LET r == nv_reserve(vec, vec_mem, new_capacity, sizeof_T, mem_ok) IN
       /\ Return("nv_reserve", r.err)
       /\ vec' = r.vec
       /\ vec_mem' = r.mem
    /\ vec_freed' = <<>>
    /\ UNCHANGED <<cfgVars, notVec, out, vec_hist>>

PushOn(op, r, value) ==
    /\ Return(op, r.err)
    /\ vec' = r.vec
    /\ vec_mem' = r.mem
    /\ vec_hist' = IF r.err = NANODS_OK THEN Append(vec_hist, value) ELSE vec_hist
    /\ vec_freed' = <<>>
    /\ UNCHANGED <<cfgVars, notVec, out>>

NvPush(value, mem_ok) ==
    /\ Live("vector")
    /\ vec.size < MaxLen
    /\ PushOn("nv_push", nv_push(vec, vec_mem, value, sizeof_T, mem_ok), value)

NsPush(value, mem_ok) ==
    /\ Live("vector")
    /\ vec.size < MaxLen
    /\ PushOn("ns_push", ns_push(vec, vec_mem, value, sizeof_T, mem_ok), value)

NvGet(index) ==
    /\ Live("vector")
    /\ LET r == nv_get(vec, vec_mem, index, out, hard_safety) IN
       IF r.chk = "abort"
       THEN Abort("nv_get") /\ UNCHANGED out
       ELSE Return("nv_get", r.err) /\ out' = r.out
    /\ vec_freed' = <<>>
    /\ UNCHANGED <<cfgVars, notVec, vec, vec_mem, vec_hist>>

NvSet(index, value) ==
    /\ Live("vector")
    /\ LET r == nv_set(vec, vec_mem, index, value, hard_safety) IN
       IF r.chk = "abort"
       THEN Abort("nv_set") /\ UNCHANGED <<vec_mem, vec_hist>>
       ELSE /\ Return("nv_set", r.err)
            /\ vec_mem' = r.mem
            /\ vec_hist' = IF r.err = NANODS_OK
                           THEN [vec_hist EXCEPT ![index + 1] = value]
                           ELSE vec_hist
    /\ vec_freed' = <<>>
    /\ UNCHANGED <<cfgVars, notVec, out, vec>>

PopOn(op, r) ==
    /\ IF r.chk = "abort"
       THEN Abort(op) /\ UNCHANGED <<out, vec, vec_hist>>
       ELSE /\ Return(op, r.err)
            /\ vec' = r.vec
            /\ out' = r.out
            /\ vec_hist' = IF r.err = NANODS_OK THEN Front(vec_hist) ELSE vec_hist
    /\ vec_freed' = <<>>
    /\ UNCHANGED <<cfgVars, notVec, vec_mem>>

NvPop(has_out) ==
    /\ Live("vector")
    /\ PopOn("nv_pop", nv_pop(vec, vec_mem, out, has_out, hard_safety))

NsPop(has_out) ==
    /\ Live("vector")
    /\ PopOn("ns_pop", ns_pop(vec, vec_mem, out, has_out, hard_safety))

NsPeek ==
    /\ Live("vector")
    /\ LET r == ns_peek(vec, vec_mem, out, hard_safety) IN
       IF r.chk = "abort"
       THEN Abort("ns_peek") /\ UNCHANGED out
       ELSE Return("ns_peek", r.err) /\ out' = r.out
    /\ vec_freed' = <<>>
    /\ UNCHANGED <<cfgVars, notVec, vec, vec_mem, vec_hist>>

NvClear ==
    /\ Live("vector")
    /\ Return("nv_clear", VOID)
    /\ vec' = nv_clear(vec)
    /\ vec_hist' = <<>>
    /\ vec_freed' = <<>>
    /\ UNCHANGED <<cfgVars, notVec, out, vec_mem>>

FreeOn(op, r) ==
    /\ Return(op, VOID)
    /\ vec' = r.vec
    /\ vec_mem' = r.mem
    /\ vec_freed' = r.freed
    /\ vec_hist' = <<>>
    /\ UNCHANGED <<cfgVars, notVec, out>>

NvFree == Live("vector") /\ FreeOn("nv_free", nv_free(vec, vec_mem, sizeof_T))

NsFree == Live("vector") /\ FreeOn("ns_free", ns_free(vec, vec_mem, sizeof_T))

NextVector ==
    \/ \E n \in (0..MaxReserve) \cup {SIZE_MAX}, ok \in BOOLEAN : NvReserve(n, ok)
    \/ \E v \in Values, ok \in BOOLEAN : NvPush(v, ok)
    \/ \E v \in Values, ok \in BOOLEAN : NsPush(v, ok)
    \/ \E i \in 0..MaxLen : NvGet(i)
    \/ \E i \in 0..MaxLen, v \in Values : NvSet(i, v)
    \/ \E h \in BOOLEAN : NvPop(h)
    \/ \E h \in BOOLEAN : NsPop(h)
    \/ NsPeek
    \/ NvClear
    \/ NvFree
    \/ NsFree

\* nv_push on a vector that may hold many elements
NvPushMany(value, mem_ok) ==
    /\ Live("vector")
    /\ vec.size < MaxGrow
    /\ PushOn("nv_push", nv_push(vec, vec_mem, value, sizeof_T, mem_ok), value)

\* a vector that is pushed to and never reserved
NextGrowth ==
    \/ \E ok \in BOOLEAN : NvPushMany(1, ok)
    \/ \E i \in {0, MaxLen} : NvGet(i)
    \/ \E i \in {0, MaxLen} : NvSet(i, 1)
    \/ NvPop(TRUE)
    \/ NvClear
    \/ NvFree

\* the capacities a caller asks nv_reserve for
ReserveSizes == {0, 3, 12, SIZE_MAX \div 2, SIZE_MAX}

NextGrowthReserve ==
    \/ \E n \in ReserveSizes, ok \in BOOLEAN : NvReserve(n, ok)
    \/ \E ok \in BOOLEAN : NvPushMany(1, ok)
    \/ NvPop(TRUE)
    \/ NvClear
    \/ NvFree

(* ----------------------- overflow check actions ---------------------- *)
\* the caller passes a, b and the address of its result slot
CheckOn(op, r) ==
    /\ ReturnValue(op, r.overflow)
    /\ arith' = [arith EXCEPT !.result = r.result]
    /\ UNCHANGED <<cfgVars, out, notArith>>

NanodsCheckMulOverflow ==
    /\ Live("checks")
    /\ CheckOn("nanods_check_mul_overflow",
               nanods_check_mul_overflow(arith.a, arith.b, arith.result))

NanodsCheckAddOverflow ==
    /\ Live("checks")
    /\ CheckOn("nanods_check_add_overflow",
               nanods_check_add_overflow(arith.a, arith.b, arith.result))

NextChecks ==
    \/ NanodsCheckMulOverflow
    \/ NanodsCheckAddOverflow

(* ------------------------------ the hash ------------------------------ *)
\* hash = nanods_fnv1a_hash_seeded(key, seed), called once on the arguments
\* the state holds
NanodsFnv1aHashSeeded ==
    /\ Live("map")
    /\ hashed.result = <<>>
    /\ hashed' = [hashed EXCEPT
                    !.result = nanods_fnv1a_hash_seeded(hashed.key, hashed.seed)]
    /\ Return("nanods_fnv1a_hash_seeded", VALUE)
    /\ UNCHANGED <<cfgVars, out, notHash>>

(* ---------------------------- ring actions ---------------------------- *)
NrWrite(value) ==
    /\ Live("ring")
    /\ LET r == nr_write(ring, value, hard_safety) IN
       IF r.chk = "abort"
       THEN Abort("nr_write") /\ UNCHANGED ringVars
       ELSE /\ Return("nr_write", r.err)
            /\ ring' = r.ring
            /\ ring_hist' = IF r.err = NANODS_OK THEN Append(ring_hist, value)
                            ELSE ring_hist
    /\ UNCHANGED <<cfgVars, notRing, out>>

NrRead ==
    /\ Live("ring")
    /\ LET r == nr_read(ring, out, hard_safety) IN
       IF r.chk = "abort"
       THEN Abort("nr_read") /\ UNCHANGED <<out, ringVars>>
       ELSE /\ Return("nr_read", r.err)
            /\ ring' = r.ring
            /\ out' = r.out
            /\ ring_hist' = IF r.err = NANODS_OK /\ ring_hist # <<>>
                            THEN Tail(ring_hist) ELSE ring_hist
    /\ UNCHANGED <<cfgVars, notRing>>

NrPeek ==
    /\ Live("ring")
    /\ LET r == nr_peek(ring, out, hard_safety) IN
       IF r.chk = "abort"
       THEN Abort("nr_peek") /\ UNCHANGED out
       ELSE Return("nr_peek", r.err) /\ out' = r.out
    /\ UNCHANGED <<cfgVars, notRing, ringVars>>

NrClear ==
    /\ Live("ring")
    /\ Return("nr_clear", VOID)
    /\ ring' = nr_clear(ring)
    /\ ring_hist' = <<>>
    /\ UNCHANGED <<cfgVars, notRing, out>>

NextRing ==
    \/ \E v \in Values : NrWrite(v)
    \/ NrRead
    \/ NrPeek
    \/ NrClear

(* ---------------------------- list actions ---------------------------- *)
ListPush(op, r, hist) ==
    /\ Return(op, r.err)
    /\ list' = r.list
    /\ list_heap' = r.heap
    /\ list_hist' = IF r.err = NANODS_OK THEN hist ELSE list_hist
    /\ UNCHANGED <<cfgVars, notList, out>>

NlPushFront(value, mem_ok) ==
    /\ Live("list")
    /\ list.size < MaxLen
    /\ ListPush("nl_push_front", nl_push_front(list, list_heap, value, mem_ok),
                <<value>> \o list_hist)

NlPushBack(value, mem_ok) ==
    /\ Live("list")
    /\ list.size < MaxLen
    /\ ListPush("nl_push_back", nl_push_back(list, list_heap, value, mem_ok),
                Append(list_hist, value))

NlPopFront(has_out) ==
    /\ Live("list")
    /\ LET r == nl_pop_front(list, list_heap, out, has_out, hard_safety) IN
       IF r.chk = "abort"
       THEN Abort("nl_pop_front") /\ UNCHANGED <<out, listVars>>
       ELSE /\ Return("nl_pop_front", r.err)
            /\ list' = r.list
            /\ list_heap' = r.heap
            /\ out' = r.out
            /\ list_hist' = IF r.err = NANODS_OK /\ list_hist # <<>>
                            THEN Tail(list_hist) ELSE list_hist
    /\ UNCHANGED <<cfgVars, notList>>

NlFree ==
    /\ Live("list")
    /\ LET r == nl_free(list, list_heap) IN
       /\ Return("nl_free", VOID)
       /\ list' = r.list
       /\ list_heap' = r.heap
       /\ list_hist' = <<>>
    /\ UNCHANGED <<cfgVars, notList, out>>

NextList ==
    \/ \E v \in Values, ok \in BOOLEAN : NlPushFront(v, ok)
    \/ \E v \in Values, ok \in BOOLEAN : NlPushBack(v, ok)
    \/ \E h \in BOOLEAN : NlPopFront(h)
    \/ NlFree

(* --------------------------- list2 actions ---------------------------- *)
\* the k-th node from `a` on (k = 1: a itself), as a caller finds it by
\* following next
RECURSIVE NthNode(_, _, _)
NthNode(heap, a, k) ==
    IF k <= 1 \/ a = NULL THEN a ELSE NthNode(heap, Node2At(heap, a).next, k - 1)

InsertAt(s, k, v) == SubSeq(s, 1, k) \o <<v>> \o SubSeq(s, k + 1, Len(s))
RemoveAt(s, k) == SubSeq(s, 1, k - 1) \o SubSeq(s, k + 1, Len(s))

List2Push(op, r, hist) ==
    /\ Return(op, r.err)
    /\ list2' = r.list
    /\ list2_heap' = r.heap
    /\ list2_hist' = IF r.err = NANODS_OK THEN hist ELSE list2_hist
    /\ UNCHANGED <<cfgVars, notList2, out>>

Nl2PushFront(value, mem_ok) ==
    /\ Live("list2")
    /\ list2.size < MaxLen
    /\ List2Push("nl2_push_front",
                 nl2_push_front(list2, list2_heap, value, mem_ok),
                 <<value>> \o list2_hist)

Nl2PushBack(value, mem_ok) ==
    /\ Live("list2")
    /\ list2.size < MaxLen
    /\ List2Push("nl2_push_back",
                 nl2_push_back(list2, list2_heap, value, mem_ok),
                 Append(list2_hist, value))

\* the caller holds the k-th node of the list
Nl2InsertAfter(k, value, mem_ok) ==
    /\ Live("list2")
    /\ list2.size < MaxLen
    /\ k \in 1..list2.size
    /\ List2Push("nl2_insert_after",
                 nl2_insert_after(list2, list2_heap,
                                  NthNode(list2_heap, list2.head, k), value, mem_ok),
                 InsertAt(list2_hist, k, value))

Nl2RemoveNode(k) ==
    /\ Live("list2")
    /\ k \in 1..list2.size
    /\ List2Push("nl2_remove_node",
                 nl2_remove_node(list2, list2_heap,
                                 NthNode(list2_heap, list2.head, k)),
                 RemoveAt(list2_hist, k))

List2Pop(op, r, hist) ==
    /\ IF r.chk = "abort"
       THEN Abort(op) /\ UNCHANGED <<out, list2Vars>>
       ELSE /\ Return(op, r.err)
            /\ list2' = r.list
            /\ list2_heap' = r.heap
            /\ out' = r.out
            /\ list2_hist' = IF r.err = NANODS_OK /\ list2_hist # <<>>
                             THEN hist ELSE list2_hist
    /\ UNCHANGED <<cfgVars, notList2>>

Nl2PopFront(has_out) ==
    /\ Live("list2")
    /\ List2Pop("nl2_pop_front",
                nl2_pop_front(list2, list2_heap, out, has_out, hard_safety),
                Tail(list2_hist))

Nl2PopBack(has_out) ==
    /\ Live("list2")
    /\ List2Pop("nl2_pop_back",
                nl2_pop_back(list2, list2_heap, out, has_out, hard_safety),
                Front(list2_hist))

Nl2Free ==
    /\ Live("list2")
    /\ LET r == nl2_free(list2, list2_heap) IN
       /\ Return("nl2_free", VOID)
       /\ list2' = r.list
       /\ list2_heap' = r.heap
       /\ list2_hist' = <<>>
    /\ UNCHANGED <<cfgVars, notList2, out>>

NextList2 ==
    \/ \E v \in Values, ok \in BOOLEAN : Nl2PushFront(v, ok)
    \/ \E v \in Values, ok \in BOOLEAN : Nl2PushBack(v, ok)
    \/ \E k \in 1..MaxLen, v \in Values, ok \in BOOLEAN : Nl2InsertAfter(k, v, ok)
    \/ \E k \in 1..MaxLen : Nl2RemoveNode(k)
    \/ \E h \in BOOLEAN : Nl2PopFront(h)
    \/ \E h \in BOOLEAN : Nl2PopBack(h)
    \/ Nl2Free

(* ----------------------------- map actions ---------------------------- *)
NanodsSeedInit(custom_seed, entropy) ==
    /\ Live("map")
    /\ LET g == nanods_seed_init(custom_seed, entropy) IN
       /\ g_nanods_hash_seed' = g.seed
       /\ g_nanods_seed_initialized' = g.initialized
    /\ Return("nanods_seed_init", VOID)
    /\ map_released' = {}
    /\ UNCHANGED <<cfgVars, notMap, out, map, map_buckets, map_heap, map_hist,
                   map_ctor, map_order>>

NanodsGetSeed(entropy) ==
    /\ Live("map")
    /\ LET g == nanods_get_seed(g_nanods_hash_seed, g_nanods_seed_initialized,
                                entropy) IN
       /\ g_nanods_hash_seed' = g.seed
       /\ g_nanods_seed_initialized' = g.initialized
       /\ ReturnValue("nanods_get_seed", g.value)
    /\ map_released' = {}
    /\ UNCHANGED <<cfgVars, notMap, out, map, map_buckets, map_heap, map_hist,
                   map_ctor, map_order>>

\* the map is constructed once, before any other call on it
CanConstruct == ~map_ctor.done

Construct(op, err, m, buckets, g) ==
    /\ Return(op, err)
    /\ map' = m
    /\ map_buckets' = buckets
    /\ g_nanods_hash_seed' = g.seed
    /\ g_nanods_seed_initialized' = g.initialized
    /\ map_ctor' = IF err \in {NANODS_OK, VOID}
                   THEN [done |-> TRUE, seed |-> m.seed, flags |-> m.flags]
                   ELSE map_ctor
    /\ map_hist' = IF err \in {NANODS_OK, VOID} THEN <<>> ELSE map_hist
    /\ map_order' = IF err \in {NANODS_OK, VOID} THEN <<>> ELSE map_order
    /\ map_released' = {}
    /\ UNCHANGED <<cfgVars, notMap, out, map_heap>>

NmInit(entropy) ==
    /\ Live("map")
    /\ CanConstruct
    /\ LET g == nanods_get_seed(g_nanods_hash_seed, g_nanods_seed_initialized,
                                entropy) IN
       Construct("nm_init", VOID, nm_init(g.value), map_buckets, g)

NmInitEx(flags, entropy) ==
    /\ Live("map")
    /\ CanConstruct
    /\ LET g == nanods_get_seed(g_nanods_hash_seed, g_nanods_seed_initialized,
                                entropy) IN
       Construct("nm_init_ex", VOID, nm_init_ex(g.value, flags), map_buckets, g)

\* nanods_get_seed is reached only when the bucket array has been allocated
SeedAfter(err, g) ==
    IF err = NANODS_OK THEN g
    ELSE [seed |-> g_nanods_hash_seed, initialized |-> g_nanods_seed_initialized]

NmInitWithCapacity(bucket_count, entropy, mem_ok) ==
    /\ Live("map")
    /\ CanConstruct
    /\ LET g == nanods_get_seed(g_nanods_hash_seed, g_nanods_seed_initialized,
                                entropy)
           r == nm_init_with_capacity(map, map_buckets, bucket_count, g.value,
                                      mem_ok)
       IN Construct("nm_init_with_capacity", r.err, r.map, r.buckets,
                    SeedAfter(r.err, g))

NmInitWithCapacityEx(bucket_count, flags, entropy, mem_ok) ==
    /\ Live("map")
    /\ CanConstruct
    /\ LET g == nanods_get_seed(g_nanods_hash_seed, g_nanods_seed_initialized,
                                entropy)
           r == nm_init_with_capacity_ex(map, map_buckets, bucket_count, flags,
                                         g.value, mem_ok)
       IN Construct("nm_init_with_capacity_ex", r.err, r.map, r.buckets,
                    SeedAfter(r.err, g))

MapPut(f, k, v) == [x \in DOMAIN f \cup {k} |-> IF x = k THEN v ELSE f[x]]
MapDel(f, k) == [x \in DOMAIN f \ {k} |-> f[x]]

\* `fails` names the allocation that fails, if one does
NmSet(key, value, entropy, fails) ==
    /\ Live("map")
    /\ map_ctor.done
    /\ LET r == nm_set(map, map_buckets, map_heap, key, value,
                       g_nanods_hash_seed, g_nanods_seed_initialized, entropy,
                       fails # "buckets", fails # "entry", fails # "key") IN
       /\ Return("nm_set", r.err)
       /\ map' = r.map
       /\ map_buckets' = r.buckets
       /\ map_heap' = r.heap
       /\ g_nanods_hash_seed' = r.seed
       /\ g_nanods_seed_initialized' = r.initialized
       /\ map_hist' = IF r.err = NANODS_OK THEN MapPut(map_hist, key, value)
                      ELSE map_hist
       /\ map_order' = IF r.err = NANODS_OK /\ key \notin DOMAIN map_hist
                       THEN Append(map_order, key) ELSE map_order
    /\ map_released' = {}
    /\ UNCHANGED <<cfgVars, notMap, out, map_ctor>>

NmGet(key) ==
    /\ Live("map")
    /\ map_ctor.done
    /\ ReturnValue("nm_get", nm_get(map, map_buckets, map_heap, key))
    /\ map_released' = {}
    /\ UNCHANGED <<cfgVars, notMap, seedVars, out, map, map_buckets, map_heap,
                   map_hist, map_ctor, map_order>>

NmHas(key) ==
    /\ Live("map")
    /\ map_ctor.done
    /\ ReturnValue("nm_has", nm_has(map, map_buckets, map_heap, key))
    /\ map_released' = {}
    /\ UNCHANGED <<cfgVars, notMap, seedVars, out, map, map_buckets, map_heap,
                   map_hist, map_ctor, map_order>>

NmRemove(key) ==
    /\ Live("map")
    /\ map_ctor.done
    /\ LET r == nm_remove(map, map_buckets, map_heap, key) IN
       /\ Return("nm_remove", r.err)
       /\ map' = r.map
       /\ map_buckets' = r.buckets
       /\ map_heap' = r.heap
       /\ map_released' = r.released
       /\ map_hist' = IF r.err = NANODS_OK THEN MapDel(map_hist, key)
                      ELSE map_hist
       /\ map_order' = IF r.err = NANODS_OK
                       THEN SelectSeq(map_order, LAMBDA k : k # key)
                       ELSE map_order
    /\ UNCHANGED <<cfgVars, notMap, seedVars, out, map_ctor>>

MapDrop(op, r) ==
    /\ Return(op, VOID)
    /\ map' = r.map
    /\ map_buckets' = r.buckets
    /\ map_heap' = r.heap
    /\ map_released' = r.released
    /\ map_hist' = <<>>
    /\ map_order' = <<>>
    /\ UNCHANGED <<cfgVars, notMap, seedVars, out, map_ctor>>

NmClear ==
    /\ Live("map")
    /\ map_ctor.done
    /\ MapDrop("nm_clear", nm_clear(map, map_buckets, map_heap))

NmFree ==
    /\ Live("map")
    /\ map_ctor.done
    /\ MapDrop("nm_free", nm_free(map, map_buckets, map_heap))

BucketArgs == (0..MaxBuckets) \cup {SIZE_MAX}

\* the entropy is read only while the seed is not initialised
EntropyNow == IF g_nanods_seed_initialized = 0 THEN Entropy ELSE {0}
AllocFailures == {"none", "buckets", "entry", "key"}

NextMap ==
    \/ \E s \in {0} \cup Seeds, e \in Entropy : NanodsSeedInit(s, e)
    \/ \E e \in EntropyNow : NanodsGetSeed(e)
    \/ \E e \in EntropyNow : NmInit(e)
    \/ \E f \in Flags, e \in EntropyNow : NmInitEx(f, e)
    \/ \E n \in BucketArgs, e \in EntropyNow, ok \in BOOLEAN :
           NmInitWithCapacity(n, e, ok)
    \/ \E n \in BucketArgs, f \in Flags, e \in EntropyNow, ok \in BOOLEAN :
           NmInitWithCapacityEx(n, f, e, ok)
    \/ \E k \in Keys, v \in Pointers, e \in EntropyNow, a \in AllocFailures :
           NmSet(k, v, e, a)
    \/ \E k \in Keys : NmGet(k)
    \/ \E k \in Keys : NmHas(k)
    \/ \E k \in Keys : NmRemove(k)
    \/ NmClear
    \/ NmFree

(* --------------------------- specification ---------------------------- *)
(* ------------------------ nv_map and nv_filter ------------------------ *)
\* `out` is a vector of the caller's own, distinct from `vec`, holding no block
NvMap(func, failing) ==
    /\ Live("functional")
    /\ fn_out.data = NULL
    /\ LET r == nv_map(vec, vec_mem, func, sizeof_T, failing) IN
       /\ Return("nv_map", r.err)
       /\ fn_out' = r.vec
       /\ fn_mem' = r.mem
    /\ UNCHANGED <<cfgVars, out, vecVars, notFun>>

NvFilter(predicate, failing) ==
    /\ Live("functional")
    /\ fn_out.data = NULL
    /\ LET r == nv_filter(vec, vec_mem, predicate, sizeof_T, failing) IN
       /\ Return("nv_filter", r.err)
       /\ fn_out' = r.vec
       /\ fn_mem' = r.mem
    /\ UNCHANGED <<cfgVars, out, vecVars, notFun>>

\* the caller is done with the output: nv_free(out)
NvFreeOut ==
    /\ Live("functional")
    /\ fn_out.data # NULL
    /\ Return("nv_free", VOID)
    /\ LET r == nv_free(fn_out, fn_mem, sizeof_T) IN
       fn_out' = r.vec /\ fn_mem' = r.mem
    /\ UNCHANGED <<cfgVars, out, vecVars, notFun>>

\* the capacities of `out` at which realloc fails: never, at the first
\* allocation, at the first growth
Failing == {{}, {0}, {InitialCapacity}}

NextFunctional ==
    \/ \E f \in Funcs, failing \in Failing : NvMap(f, failing)
    \/ \E p \in Preds, failing \in Failing : NvFilter(p, failing)
    \/ NvFreeOut

(* -------------------------- iterator actions ------------------------- *)
\* a cursor has been made over the container
Iterating == it # NoIter \/ miter # NoMapIter

MakeIter(op, i) ==
    /\ ~Iterating
    /\ Return(op, VALUE)
    /\ it' = i
    /\ visited' = <<>>
    /\ UNCHANGED <<cfgVars, out, notIter, miter>>

\* one turn of the caller's loop: read *ptr when the cursor has an element,
\* then advance; r: what the advance returns, elem: *ptr
Advance(op, r, elem) ==
    /\ ReturnValue(op, r.ret)
    /\ it' = r.it
    /\ visited' = IF nanods_iter_has_next(it, miter) = 1
                  THEN Append(visited, elem) ELSE visited
    /\ UNCHANGED <<cfgVars, out, notIter, miter>>

NvIter == Live("vector") /\ MakeIter("nv_iter", nv_iter(vec))

NvIterNext ==
    /\ Live("vector")
    /\ it.type = NANODS_ITER_VECTOR
    /\ Advance("nv_iter_next", nv_iter_next(it, vec), Load(vec_mem, it.ptr - 1))

NlIter == Live("list") /\ MakeIter("nl_iter", nl_iter(list))

NlIterNext ==
    /\ Live("list")
    /\ it.type = NANODS_ITER_LIST
    /\ Advance("nl_iter_next", nl_iter_next(it, list_heap),
               NodeAt(list_heap, it.ptr).data)

Nl2Iter == Live("list2") /\ MakeIter("nl2_iter", nl2_iter(list2))

Nl2IterNext ==
    /\ Live("list2")
    /\ it.type = NANODS_ITER_LIST2
    /\ Advance("nl2_iter_next", nl2_iter_next(it, list2_heap),
               Node2At(list2_heap, it.ptr).data)

NmIter(mem_ok) ==
    /\ Live("map")
    /\ map_ctor.done
    /\ ~Iterating
    /\ LET r == nm_iter(map, map_buckets, mem_ok) IN
       it' = r.it /\ miter' = r.iter
    /\ Return("nm_iter", VALUE)
    /\ visited' = <<>>
    /\ UNCHANGED <<cfgVars, out, notIter>>

\* nm_iter_next(iter, &key, &value): the caller keeps what an Ok call hands out
MapAdvance ==
    LET r == nm_iter_next(miter, map, map_buckets, map_heap) IN
    /\ Return("nm_iter_next", r.err)
    /\ miter' = r.iter
    /\ visited' = IF r.err = NANODS_OK THEN Append(visited, <<r.key, r.value>>)
                  ELSE visited
    /\ UNCHANGED <<cfgVars, out, notIter, it>>

\* one turn of `while (nanods_iter_has_next(&it)) nm_iter_next(it.internal, ..)`
NmIterLoop ==
    /\ Live("map")
    /\ it.type = NANODS_ITER_MAP
    /\ nanods_iter_has_next(it, miter) = 1
    /\ MapAdvance

NmIterFree ==
    /\ Live("map")
    /\ it.type = NANODS_ITER_MAP
    /\ LET r == nm_iter_free(it, miter) IN
       it' = r.it /\ miter' = r.iter
    /\ Return("nm_iter_free", VOID)
    /\ UNCHANGED <<cfgVars, out, notIter, visited>>

NmIterInit ==
    /\ Live("map")
    /\ map_ctor.done
    /\ ~Iterating
    /\ miter' = nm_iter_init(map, map_buckets)
    /\ Return("nm_iter_init", VOID)
    /\ visited' = <<>>
    /\ UNCHANGED <<cfgVars, out, notIter, it>>

\* a call of nm_iter_next on the caller's own NanoMapIterator
NmIterNext ==
    /\ Live("map")
    /\ it = NoIter
    /\ miter.map # NULL
    /\ MapAdvance

\* the calls that fill the container; none is made once a cursor exists
Fill ==
    \/ \E v \in Values : NvPush(v, TRUE)
    \/ \E v \in Values : NlPushFront(v, TRUE)
    \/ \E v \in Values : NlPushBack(v, TRUE)
    \/ \E v \in Values : Nl2PushFront(v, TRUE)
    \/ \E v \in Values : Nl2PushBack(v, TRUE)
    \/ \E e \in EntropyNow : NmInitWithCapacity(1, e, TRUE)
    \/ \E k \in ChainKeys, v \in Pointers, e \in EntropyNow :
           NmSet(k, v, e, "none")
    \/ \E k \in ChainKeys : NmRemove(k)
    \/ NmFree

NextIter ==
    \/ ~Iterating /\ Fill
    \/ NvIter
    \/ NvIterNext
    \/ NlIter
    \/ NlIterNext
    \/ Nl2Iter
    \/ Nl2IterNext
    \/ \E ok \in BOOLEAN : NmIter(ok)
    \/ NmIterLoop
    \/ NmIterFree
    \/ NmIterInit
    \/ NmIterNext

(* ----------------------- two maps, the same calls --------------------- *)
\* the calls the two maps are given
NoCall == [name |-> "none", key |-> <<>>, value |-> NULL]
MapCalls ==
    {[name |-> "nm_set", key |-> k, value |-> v] : k \in Keys, v \in Pointers}
    \cup {[name |-> "nm_remove", key |-> k, value |-> NULL] : k \in Keys}
    \cup {[name |-> "nm_clear", key |-> <<>>, value |-> NULL]}

\* the call c made on a map, no allocation failing: [err, map, buckets, heap]
MapCall(c, m, buckets, heap) ==
    CASE c.name = "nm_set" ->
             LET r == nm_set(m, buckets, heap, c.key, c.value,
                             g_nanods_hash_seed, g_nanods_seed_initialized, 0,
                             TRUE, TRUE, TRUE) IN
             [err |-> r.err, map |-> r.map, buckets |-> r.buckets,
              heap |-> r.heap]
      [] c.name = "nm_remove" ->
             LET r == nm_remove(m, buckets, heap, c.key) IN
             [err |-> r.err, map |-> r.map, buckets |-> r.buckets,
              heap |-> r.heap]
      [] OTHER ->
             LET r == nm_clear(m, buckets, heap) IN
             [err |-> VOID, map |-> r.map, buckets |-> r.buckets,
              heap |-> r.heap]

\* nm_init(&map); nm_init(&map_b); with the seed set by nanods_seed_init
TwinInit ==
    /\ Live("map")
    /\ ~twin.made
    /\ g_nanods_seed_initialized = 1
    /\ map' = nm_init(g_nanods_hash_seed)
    /\ map_b' = nm_init(g_nanods_hash_seed)
    /\ twin' = [made |-> TRUE, seed |-> g_nanods_hash_seed, pending |-> NoCall]
    /\ map_ctor' = [done |-> TRUE, seed |-> g_nanods_hash_seed,
                    flags |-> NANODS_FLAG_NONE]
    /\ Return("nm_init", VOID)
    /\ UNCHANGED <<cfgVars, out, vecVars, ringVars, listVars, list2Vars,
                   seedVars, funVars, iterVars, allocVars, arithVars, hashVars,
                   map_buckets,
                   map_heap, map_hist, map_released, map_order, map_b_buckets,
                   map_b_heap>>

\* the next call, made on map (of the histories of map, map_hist is kept)
TwinCallA(c) ==
    /\ Live("map")
    /\ twin.made
    /\ twin.pending = NoCall
    /\ LET r == MapCall(c, map, map_buckets, map_heap) IN
       /\ map' = r.map
       /\ map_buckets' = r.buckets
       /\ map_heap' = r.heap
       /\ Return(c.name, r.err)
       /\ map_hist' =
              CASE c.name = "nm_set" /\ r.err = NANODS_OK ->
                       MapPut(map_hist, c.key, c.value)
                [] c.name = "nm_remove" /\ r.err = NANODS_OK ->
                       MapDel(map_hist, c.key)
                [] c.name = "nm_clear" -> <<>>
                [] OTHER -> map_hist
    /\ twin' = [twin EXCEPT !.pending = c]
    /\ UNCHANGED <<cfgVars, out, vecVars, ringVars, listVars, list2Vars,
                   seedVars, funVars, iterVars, allocVars, arithVars, hashVars,
                   map_ctor,
                   map_released, map_order, map_b, map_b_buckets, map_b_heap>>

\* the same call, made on map_b
TwinCallB ==
    /\ Live("map")
    /\ twin.pending # NoCall
    /\ LET r == MapCall(twin.pending, map_b, map_b_buckets, map_b_heap) IN
       /\ map_b' = r.map
       /\ map_b_buckets' = r.buckets
       /\ map_b_heap' = r.heap
       /\ Return(twin.pending.name, r.err)
    /\ twin' = [twin EXCEPT !.pending = NoCall]
    /\ UNCHANGED <<cfgVars, out, vecVars, ringVars, listVars, list2Vars,
                   seedVars, funVars, iterVars, allocVars, arithVars, hashVars,
                   mapVars>>

NextTwin ==
    \/ \E s \in {0} \cup Seeds, e \in Entropy : NanodsSeedInit(s, e)
    \/ \E e \in EntropyNow : NanodsGetSeed(e)
    \/ TwinInit
    \/ \E c \in MapCalls : TwinCallA(c)
    \/ TwinCallB

(* -------------------------- allocator actions ------------------------ *)
NoBlock == [owner |-> NULL, from |-> NULL, to |-> NULL]

NanodsSetAllocator(allocator) ==
    /\ Live("vector")
    /\ g_nanods_allocator' = nanods_set_allocator(allocator)
    /\ alloc_via' = {}
    /\ vec_alloc' = vec_alloc
    /\ Return("nanods_set_allocator", VOID)
    /\ UNCHANGED <<cfgVars, out, vecVars, notAlloc>>

NanodsGetAllocator ==
    /\ Live("vector")
    /\ ReturnValue("nanods_get_allocator",
                   nanods_get_allocator(g_nanods_allocator))
    /\ UNCHANGED <<cfgVars, out, vecVars, notAlloc, allocVars>>

\* nv_push called from a translation unit; the call reaches realloc when the
\* vector is full and the new size in bytes does not overflow
NvPushIn(impl, value, mem_ok) ==
    /\ Live("vector")
    /\ vec.size < MaxLen
    /\ LET r == nv_push(vec, vec_mem, value, sizeof_T, mem_ok) IN
       /\ Return("nv_push", r.err)
       /\ vec' = r.vec
       /\ vec_mem' = r.mem
       /\ vec_hist' = IF r.err = NANODS_OK THEN Append(vec_hist, value)
                      ELSE vec_hist
       /\ alloc_via' =
              IF vec.size >= vec.capacity /\ r.err # NANODS_ERR_OVERFLOW
              THEN alloc_via \cup {HeapFn(impl, g_nanods_allocator, "realloc")}
              ELSE alloc_via
       /\ vec_alloc' =
              IF vec.size >= vec.capacity /\ r.err # NANODS_ERR_OVERFLOW
              THEN LET to == HeapFn(impl, g_nanods_allocator, "realloc").of IN
                   [owner |-> IF r.err = NANODS_OK THEN to ELSE vec_alloc.owner,
                    from |-> IF vec.data # NULL THEN vec_alloc.owner
                             ELSE vec_alloc.from,
                    to |-> IF vec.data # NULL THEN to ELSE vec_alloc.to]
              ELSE vec_alloc
    /\ vec_freed' = <<>>
    /\ UNCHANGED <<cfgVars, out, notAlloc, g_nanods_allocator>>

\* nv_free called from a translation unit; the call reaches free when the
\* vector has a block
NvFreeIn(impl) ==
    /\ Live("vector")
    /\ LET r == nv_free(vec, vec_mem, sizeof_T) IN
       vec' = r.vec /\ vec_mem' = r.mem /\ vec_freed' = r.freed
    /\ vec_hist' = <<>>
    /\ alloc_via' = IF vec.data # NULL
                    THEN alloc_via \cup {HeapFn(impl, g_nanods_allocator, "free")}
                    ELSE alloc_via
    /\ vec_alloc' = IF vec.data # NULL
                    THEN [owner |-> NULL, from |-> vec_alloc.owner,
                          to |-> HeapFn(impl, g_nanods_allocator, "free").of]
                    ELSE vec_alloc
    /\ Return("nv_free", VOID)
    /\ UNCHANGED <<cfgVars, out, notAlloc, g_nanods_allocator>>

NextAllocator ==
    \/ \E a \in Allocators \cup {NULL} : NanodsSetAllocator(a)
    \/ NanodsGetAllocator
    \/ \E impl \in BOOLEAN, v \in Values, ok \in BOOLEAN : NvPushIn(impl, v, ok)
    \/ \E impl \in BOOLEAN : NvFreeIn(impl)

\* the allocator calls of a program whose every call is compiled in the
\* translation unit that defines NANODS_IMPLEMENTATION
NextSwitch ==
    \/ \E a \in Allocators \cup {NULL} : NanodsSetAllocator(a)
    \/ NanodsGetAllocator
    \/ \E v \in Values, ok \in BOOLEAN : NvPushIn(TRUE, v, ok)
    \/ NvFreeIn(TRUE)

vars ==
    <<commonVars, vecVars, ringVars, listVars, list2Vars, seedVars, mapVars,
      funVars, iterVars,
      allocVars, twinVars, arithVars,
      hashVars>>

Init ==
    /\ under_test \in Containers
    \* the map consults the build only for null arguments, which no call passes
    /\ hard_safety \in (IF under_test = "map" THEN {TRUE} ELSE BOOLEAN)
    /\ sizeof_T \in (IF under_test = "vector" THEN ElemSizes ELSE {SizeofInt})
    /\ aborted = FALSE
    /\ last = [op |-> "init", ret |-> VOID, val |-> 0]
    /\ out = Indet
    /\ vec \in (IF under_test = "vector" THEN {nv_init_ex(f) : f \in Flags}
                ELSE {nv_init})
    /\ vec_mem = <<>>
    /\ vec_hist = <<>>
    /\ vec_freed = <<>>
    /\ ring \in (IF under_test = "ring"
                 THEN {nr_init_ex([i \in 1..RingN |-> Indet], f) : f \in Flags}
                 ELSE {nr_init([i \in 1..RingN |-> Indet])})
    /\ ring_hist = <<>>
    /\ list \in (IF under_test = "list" THEN {nl_init_ex(f) : f \in Flags}
                 ELSE {nl_init})
    /\ list_heap = <<>>
    /\ list_hist = <<>>
    /\ list2 \in (IF under_test = "list2" THEN {nl2_init_ex(f) : f \in Flags}
                  ELSE {nl2_init})
    /\ list2_heap = <<>>
    /\ list2_hist = <<>>
    /\ g_nanods_hash_seed = 0
    /\ g_nanods_seed_initialized = 0
    /\ map = RawMap
    /\ map_buckets = <<>>
    /\ map_heap = <<>>
    /\ map_hist = <<>>
    /\ map_ctor = [done |-> FALSE, seed |-> 0, flags |-> NANODS_FLAG_NONE]
    /\ map_released = {}
    /\ map_order = <<>>
    /\ fn_out = nv_init
    /\ fn_mem = <<>>
    /\ it = NoIter
    /\ miter = NoMapIter
    /\ visited = <<>>
    /\ g_nanods_allocator = g_nanods_default_allocator
    /\ alloc_via = {}
    /\ vec_alloc = NoBlock
    /\ map_b = RawMap
    /\ map_b_buckets = <<>>
    /\ map_b_heap = <<>>
    /\ twin = [made |-> FALSE, seed |-> 0, pending |-> NoCall]
    /\ arith = NoArith
    /\ hashed = NoHash

Next ==
    \/ NextVector
    \/ NextRing
    \/ NextList
    \/ NextList2
    \/ NextMap

Spec == Init /\ [][Next]_vars

\* the calls that allocate or release: those of the vector, the lists and
\* the map, and nm_iter and nm_iter_free on the map
NextLifetime ==
    \/ \E n \in (0..MaxReserve) \cup {SIZE_MAX}, ok \in BOOLEAN : NvReserve(n, ok)
    \/ \E v \in Values, ok \in BOOLEAN : NvPush(v, ok)
    \/ \E h \in BOOLEAN : NvPop(h)
    \/ NvClear
    \/ NvFree
    \/ NextList
    \/ NextList2
    \/ \E e \in EntropyNow : NmInit(e)
    \/ \E f \in Flags, e \in EntropyNow : NmInitEx(f, e)
    \/ \E n \in BucketArgs, e \in EntropyNow, ok \in BOOLEAN :
           NmInitWithCapacity(n, e, ok)
    \/ \E n \in BucketArgs, f \in Flags, e \in EntropyNow, ok \in BOOLEAN :
           NmInitWithCapacityEx(n, f, e, ok)
    \/ \E k \in Keys, v \in Pointers, e \in EntropyNow, a \in AllocFailures :
           NmSet(k, v, e, a)
    \/ \E k \in Keys : NmRemove(k)
    \/ NmClear
    \/ NmFree
    \/ \E ok \in BOOLEAN : NmIter(ok)
    \/ NmIterFree

SpecLifetime == Init /\ [][NextLifetime]_vars

InitVector == Init /\ under_test = "vector"
SpecVector == InitVector /\ [][NextVector]_vars

InitRing == Init /\ under_test = "ring"
SpecRing == InitRing /\ [][NextRing]_vars

InitList == Init /\ under_test = "list"
SpecList == InitList /\ [][NextList]_vars

InitList2 == Init /\ under_test = "list2"
SpecList2 == InitList2 /\ [][NextList2]_vars

InitMap == Init /\ under_test = "map"
SpecMap == InitMap /\ [][NextMap]_vars

\* a map of one bucket, so that every key lands in the same chain; nm_free
\* takes the bucket array away and the next nm_set brings 16 buckets
NextMapChain ==
    \/ \E e \in EntropyNow : NmInitWithCapacity(1, e, TRUE)
    \/ \E k \in ChainKeys, v \in Pointers, e \in EntropyNow : NmSet(k, v, e, "none")
    \/ \E k \in ChainKeys : NmGet(k)
    \/ \E k \in ChainKeys : NmRemove(k)
    \/ NmFree

SpecMapChain == InitMap /\ [][NextMapChain]_vars

\* the source vectors of nv_map and nv_filter: n elements pushed after
\* nv_reserve(n), for every n up to MaxSrc
Sources == UNION {[1..n -> Values] : n \in 0..MaxSrc}

InitFunctional ==
    /\ under_test = "functional"
    \* nv_map and nv_filter consult the build only for null arguments
    /\ hard_safety = TRUE
    /\ sizeof_T \in {SizeofChar, SizeofInt}
    /\ aborted = FALSE
    /\ last = [op |-> "init", ret |-> VOID, val |-> 0]
    /\ out = Indet
    /\ vec_mem \in Sources
    /\ vec = [data |-> IF Len(vec_mem) = 0 THEN NULL ELSE 1,
              size |-> Len(vec_mem), capacity |-> Len(vec_mem),
              flags |-> NANODS_FLAG_NONE]
    /\ vec_hist = vec_mem
    /\ vec_freed = <<>>
    /\ ring = nr_init([i \in 1..RingN |-> Indet])
    /\ ring_hist = <<>>
    /\ list = nl_init
    /\ list_heap = <<>>
    /\ list_hist = <<>>
    /\ list2 = nl2_init
    /\ list2_heap = <<>>
    /\ list2_hist = <<>>
    /\ g_nanods_hash_seed = 0
    /\ g_nanods_seed_initialized = 0
    /\ map = RawMap
    /\ map_buckets = <<>>
    /\ map_heap = <<>>
    /\ map_hist = <<>>
    /\ map_ctor = [done |-> FALSE, seed |-> 0, flags |-> NANODS_FLAG_NONE]
    /\ map_released = {}
    /\ map_order = <<>>
    /\ fn_out = nv_init
    /\ fn_mem = <<>>
    /\ it = NoIter
    /\ miter = NoMapIter
    /\ visited = <<>>
    /\ g_nanods_allocator = g_nanods_default_allocator
    /\ alloc_via = {}
    /\ vec_alloc = NoBlock
    /\ map_b = RawMap
    /\ map_b_buckets = <<>>
    /\ map_b_heap = <<>>
    /\ twin = [made |-> FALSE, seed |-> 0, pending |-> NoCall]
    /\ arith = NoArith
    /\ hashed = NoHash

SpecFunctional == InitFunctional /\ [][NextFunctional]_vars


\* a map whose caller stores null pointers as well: nm_set takes any void*
NextMapNull ==
    \/ \E e \in EntropyNow : NmInit(e)
    \/ \E k \in Keys, v \in Pointers \cup {NULL}, e \in EntropyNow :
           NmSet(k, v, e, "none")
    \/ \E k \in Keys : NmGet(k)
    \/ \E k \in Keys : NmHas(k)
    \/ \E k \in Keys : NmRemove(k)

SpecMapNull == InitMap /\ [][NextMapNull]_vars

SpecTwin == InitMap /\ [][NextTwin]_vars

SpecAllocator == InitVector /\ [][NextAllocator]_vars
SpecSwitch == InitVector /\ [][NextSwitch]_vars

\* the containers and globals no call of the specification touches
Idle ==
    /\ ring = nr_init([i \in 1..RingN |-> Indet])
    /\ ring_hist = <<>>
    /\ list = nl_init
    /\ list_heap = <<>>
    /\ list_hist = <<>>
    /\ list2 = nl2_init
    /\ list2_heap = <<>>
    /\ list2_hist = <<>>
    /\ g_nanods_hash_seed = 0
    /\ g_nanods_seed_initialized = 0
    /\ map = RawMap
    /\ map_buckets = <<>>
    /\ map_heap = <<>>
    /\ map_hist = <<>>
    /\ map_ctor = [done |-> FALSE, seed |-> 0, flags |-> NANODS_FLAG_NONE]
    /\ map_released = {}
    /\ map_order = <<>>
    /\ fn_out = nv_init
    /\ fn_mem = <<>>
    /\ it = NoIter
    /\ miter = NoMapIter
    /\ visited = <<>>
    /\ g_nanods_allocator = g_nanods_default_allocator
    /\ alloc_via = {}
    /\ vec_alloc = NoBlock
    /\ map_b = RawMap
    /\ map_b_buckets = <<>>
    /\ map_b_heap = <<>>
    /\ twin = [made |-> FALSE, seed |-> 0, pending |-> NoCall]

\* a vector of char or of int fresh from nv_init or nv_init_ex
InitGrowth ==
    /\ under_test = "vector"
    /\ hard_safety \in BOOLEAN
    /\ sizeof_T \in {SizeofChar, SizeofInt}
    /\ aborted = FALSE
    /\ last = [op |-> "init", ret |-> VOID, val |-> 0]
    /\ out = Indet
    /\ vec \in {nv_init_ex(f) : f \in Flags}
    /\ vec_mem = <<>>
    /\ vec_hist = <<>>
    /\ vec_freed = <<>>
    /\ Idle
    /\ arith = NoArith
    /\ hashed = NoHash

SpecGrowth == InitGrowth /\ [][NextGrowth]_vars

SpecGrowthReserve == InitGrowth /\ [][NextGrowthReserve]_vars

\* realloc(ptr, size) extends the block where it lies or hands back a new
\* block: it then copies the content and releases the old block as it is.
\* `r` is what nv_reserve or nv_push made of vector `v` with block `mem`;
\* realloc was called, and succeeded, exactly when the capacity changed.
\* [vec, freed]
ReallocMoves(v, mem, r, moved) ==
    IF moved /\ v.data # NULL /\ r.vec.capacity # v.capacity
    THEN [vec |-> [r.vec EXCEPT !.data = IF v.data = 1 THEN 2 ELSE 1],
          freed |-> <<mem>>]
    ELSE [vec |-> r.vec, freed |-> <<>>]

\* nv_reserve with the block realloc releases when it moves the data
NvReserveMoving(new_capacity, mem_ok, moved) ==
    /\ Live("vector")
    /\ LET r == nv_reserve(vec, vec_mem, new_capacity, sizeof_T, mem_ok)
           m == ReallocMoves(vec, vec_mem, r, moved) IN
       /\ Return("nv_reserve", r.err)
       /\ vec' = m.vec
       /\ vec_mem' = r.mem
       /\ vec_freed' = m.freed
    /\ UNCHANGED <<cfgVars, notVec, out, vec_hist>>

\* nv_push with the block realloc releases when it moves the data
NvPushMoving(value, mem_ok, moved) ==
    /\ Live("vector")
    /\ vec.size < MaxSrc
    /\ LET r == nv_push(vec, vec_mem, value, sizeof_T, mem_ok)
           m == ReallocMoves(vec, vec_mem, r, moved) IN
       /\ Return("nv_push", r.err)
       /\ vec' = m.vec
       /\ vec_mem' = r.mem
       /\ vec_freed' = m.freed
       /\ vec_hist' = IF r.err = NANODS_OK THEN Append(vec_hist, value)
                      ELSE vec_hist
    /\ UNCHANGED <<cfgVars, notVec, out>>

NextSecure ==
    \/ \E n \in {0, MaxReserve, 12}, ok \in BOOLEAN, mv \in BOOLEAN :
          NvReserveMoving(n, ok, mv)
    \/ \E ok \in BOOLEAN, mv \in BOOLEAN : NvPushMoving(1, ok, mv)
    \/ NvPop(TRUE)
    \/ NvClear
    \/ NvFree

InitSecure == Init /\ under_test = "vector"
SpecSecure == InitSecure /\ [][NextSecure]_vars

\* a source vector of up to MaxLen elements, made with nv_init or with
\* nv_init_ex(NANODS_FLAG_SECURE), for nv_map and nv_filter
InitFlagged ==
    /\ under_test = "functional"
    /\ hard_safety = TRUE
    /\ sizeof_T \in {SizeofChar, SizeofInt}
    /\ aborted = FALSE
    /\ last = [op |-> "init", ret |-> VOID, val |-> 0]
    /\ out = Indet
    /\ vec_mem \in UNION {[1..n -> Values] : n \in 0..MaxLen}
    /\ vec \in {[data |-> IF Len(vec_mem) = 0 THEN NULL ELSE 1,
                  size |-> Len(vec_mem), capacity |-> Len(vec_mem),
                  flags |-> f] : f \in Flags}
    /\ vec_hist = vec_mem
    /\ vec_freed = <<>>
    /\ Idle
    /\ arith = NoArith
    /\ hashed = NoHash

SpecFlagged == InitFlagged /\ [][NextFunctional]_vars

\* a stack or a ring
InitPeek == Init /\ under_test \in {"vector", "ring"}
NextPeek ==
    \/ NextVector
    \/ NextRing
SpecPeek == InitPeek /\ [][NextPeek]_vars

\* the checks are given every pair of size_t values
InitChecks ==
    /\ under_test = "checks"
    /\ hard_safety = TRUE
    /\ sizeof_T = SizeofInt
    /\ aborted = FALSE
    /\ last = [op |-> "init", ret |-> VOID, val |-> 0]
    /\ out = Indet
    /\ vec = nv_init
    /\ vec_mem = <<>>
    /\ vec_hist = <<>>
    /\ vec_freed = <<>>
    /\ Idle
    /\ arith \in [a : 0..SIZE_MAX, b : 0..SIZE_MAX, result : {Indet}]
    /\ hashed = NoHash

SpecChecks == InitChecks /\ [][NextChecks]_vars

\* the keys and seeds the hash function is called on: the empty key, keys of
\* one to three bytes, a byte with the top bit set; seed 0, small seeds and a
\* seed that reaches into every byte
HashKeys == {<<>>, <<97>>, <<97, 98>>, <<98, 97>>, <<97, 98, 99>>, <<255>>}
HashSeeds == {0, 1, 65536, 305419896}

InitHash ==
    /\ under_test = "map"
    /\ hard_safety = TRUE
    /\ sizeof_T = SizeofInt
    /\ aborted = FALSE
    /\ last = [op |-> "init", ret |-> VOID, val |-> 0]
    /\ out = Indet
    /\ vec = nv_init
    /\ vec_mem = <<>>
    /\ vec_hist = <<>>
    /\ vec_freed = <<>>
    /\ Idle
    /\ arith = NoArith
    /\ hashed \in [key : HashKeys, seed : HashSeeds, result : {<<>>}]

\* the hash function, and a 16-bucket map set, read and emptied key by key
NextHash ==
    \/ NanodsFnv1aHashSeeded
    \/ \E s \in {0} \cup Seeds, e \in Entropy : NanodsSeedInit(s, e)
    \/ \E e \in EntropyNow : NmInitWithCapacity(0, e, TRUE)
    \/ \E k \in Keys, e \in EntropyNow : NmSet(k, 1, e, "none")
    \/ \E k \in Keys : NmGet(k)
    \/ \E k \in Keys : NmHas(k)
    \/ \E k \in Keys : NmRemove(k)

SpecHash == InitHash /\ [][NextHash]_vars

InitIter == Init /\ under_test \in {"vector", "list", "list2", "map"}
SpecIter == InitIter /\ [][NextIter]_vars

(* ------------------------------ properties ---------------------------- *)
\* a successful pop decrements size and, when the caller passes `out`, stores
\* there the newest value of the pushes not yet popped
StackPopReturnsNewest ==
    \A h \in BOOLEAN :
        ((NvPop(h) \/ NsPop(h)) /\ last'.ret = NANODS_OK)
        => /\ vec_hist # <<>>
           /\ h => out' = Last(vec_hist)
           /\ vec'.size = vec.size - 1

\* C1: over the pushes and pops of a Vector or Stack, size is the number of
\* pushes that succeeded minus the number of pops that succeeded (the length
\* of vec_hist), the live slots hold those values in push order, and every
\* successful pop returns the most recently pushed value not yet popped.
C1_StackLifo ==
    /\ [](/\ nv_size(vec) = Len(vec_hist)
          /\ \A i \in 1..Len(vec_hist) : Load(vec_mem, i - 1) = vec_hist[i])
    /\ [][StackPopReturnsNewest]_vars

\* push 2, push 1, pop: the pop returned 1 and left 2
C1_Witness ==
    /\ last.op = "ns_pop"
    /\ last.ret = NANODS_OK
    /\ out = 1
    /\ vec_hist = <<2>>
    /\ nv_size(vec) = 1

\* slot of the i-th oldest unread value of the ring
RingSlot(i) == (ring.head + i - 1) % ring.capacity

\* a successful read hands out the oldest write not yet read
RingReadReturnsOldest ==
    (NrRead /\ last'.ret = NANODS_OK)
    => /\ ring_hist # <<>>
       /\ out' = Head(ring_hist)

\* C2: over every interleaving of nr_write and nr_read, wraparound of head and
\* tail included, the ring holds exactly the successful writes not yet read,
\* in write order from head on, and each successful read returns the oldest
\* of them: the k-th successful read returns the k-th successful write.
C2_RingFifo ==
    /\ [](/\ nr_size(ring) = Len(ring_hist)
          /\ ring.tail = (ring.head + ring.count) % ring.capacity
          /\ \A i \in 1..Len(ring_hist) : Load(ring.data, RingSlot(i)) = ring_hist[i])
    /\ [][RingReadReturnsOldest]_vars

\* a read has just succeeded while the unread values wrap past slot N-1
C2_Witness ==
    /\ last.op = "nr_read"
    /\ last.ret = NANODS_OK
    /\ ring.count = 2
    /\ ring.tail < ring.head
    /\ out = 1
    /\ ring_hist = <<2, 1>>

\* C3: the map is the key -> value function its calls built: nm_get(k) is the
\* value of the latest nm_set of k not followed by a remove of k or a clear,
\* NULL for every other key; nm_has(k) is 1 exactly for the keys set; nm_size
\* is the number of those keys (so an overwrite leaves it unchanged).
C3_MapRefinesFunction ==
    /\ nm_size(map) = Cardinality(DOMAIN map_hist)
    /\ \A k \in Keys :
          /\ nm_get(map, map_buckets, map_heap, k)
               = (IF k \in DOMAIN map_hist THEN map_hist[k] ELSE NULL)
          /\ nm_has(map, map_buckets, map_heap, k)
               = (IF k \in DOMAIN map_hist THEN 1 ELSE 0)

\* two keys chained in the one bucket of a map, the older one overwritten:
\* nm_get has just returned a hit
C3_Witness ==
    /\ last.op = "nm_get"
    /\ last.val = 2
    /\ map.bucket_count = 1
    /\ nm_size(map) = 2
    /\ map_hist[Key(1)] = 2
    /\ EntryAt(map_heap, Load(map_buckets, 0)).key = Key(2)

\* a successful pop_front hands out the oldest value of the list
ListPopReturnsFront ==
    \A h \in BOOLEAN :
        (NlPopFront(h) /\ last'.ret = NANODS_OK)
        => /\ list_hist # <<>>
           /\ h => out' = Head(list_hist)
           /\ list'.size = list.size - 1

\* C4: over the pushes and pops of a List, size is pushes minus successful
\* pops (the length of list_hist) and successful nl_pop_front calls return
\* the values in the order nl_push_back appended them (FIFO).
C4_ListFifo ==
    /\ [](nl_size(list) = Len(list_hist))
    /\ [][ListPopReturnsFront]_vars

\* push_back 1, push_back 2, pop_front: the pop returned 1 and left 2
C4_Witness ==
    /\ last.op = "nl_pop_front"
    /\ last.ret = NANODS_OK
    /\ out = 1
    /\ list_hist = <<2>>
    /\ list.head = list.tail
    /\ list.head # NULL

\* a successful pop hands out the element at its end of the list
List2PopReturnsEnd ==
    \A h \in BOOLEAN :
        /\ (Nl2PopFront(h) /\ last'.ret = NANODS_OK)
           => /\ list2_hist # <<>>
              /\ h => out' = Head(list2_hist)
        /\ (Nl2PopBack(h) /\ last'.ret = NANODS_OK)
           => /\ list2_hist # <<>>
              /\ h => out' = Last(list2_hist)

\* C5: a List2 is a double-ended queue: nl2_pop_back returns the element last
\* in head-to-tail order and nl2_pop_front the element first in it, whatever
\* pushes at either end built the list; size is the number of elements.
C5_List2Deque ==
    /\ [](nl2_size(list2) = Len(list2_hist))
    /\ [][List2PopReturnsEnd]_vars

\* the list held 2, 2, 1 from head to tail: pop_back returned 1 and left 2, 2
C5_Witness ==
    /\ last.op = "nl2_pop_back"
    /\ last.ret = NANODS_OK
    /\ out = 1
    /\ list2_hist = <<2, 2>>

\* the mutations that can fail, and what a container consists of
FallibleMutations ==
    {"nv_reserve", "nv_push", "nl_push_front", "nl_push_back", "nl2_push_front",
     "nl2_push_back", "nl2_insert_after", "nm_set"}
ContainerState ==
    <<vec, vec_mem, list, list_heap, list2, list2_heap, map, map_buckets, map_heap>>

\* C6: every fallible mutation is all-or-nothing: when nv_reserve, nv_push,
\* nl_push_front, nl_push_back, nl2_push_front, nl2_push_back,
\* nl2_insert_after or nm_set (the first nm_set on a map without a bucket
\* array included) returns NANODS_ERR_NOMEM or NANODS_ERR_OVERFLOW, every
\* field and every stored element of the container is as before the call.
C6_AllOrNothing ==
    [][(/\ last'.op \in FallibleMutations
        /\ last'.ret \in {NANODS_ERR_NOMEM, NANODS_ERR_OVERFLOW})
       => UNCHANGED ContainerState]_vars

\* C7: a map constructed with NANODS_FLAG_SECURE keeps the flag through every
\* later call, and every chain node nm_remove, nm_clear or nm_free releases
\* has its key bytes and its entry zeroed before the release.
C7_SecureKept ==
    (map_ctor.done /\ Secure(map_ctor.flags))
    => /\ Secure(map.flags)
       /\ \A r \in map_released : r.key_wiped /\ r.entry_wiped

\* C8: the seed a map got from the process-wide seed when it was constructed
\* is the seed it has ever after: no later call on the map, and no later
\* nanods_seed_init, changes it.
C8_SeedFixed == map_ctor.done => map.seed = map_ctor.seed

\* the call that has just been made found its container empty / its ring full
EmptyCall ==
    \/ last'.op \in {"nv_pop", "ns_pop", "ns_peek"} /\ nv_size(vec) = 0
    \/ last'.op = "nl_pop_front" /\ nl_size(list) = 0
    \/ last'.op \in {"nl2_pop_front", "nl2_pop_back"} /\ nl2_size(list2) = 0
    \/ last'.op \in {"nr_read", "nr_peek"} /\ nr_size(ring) = 0
FullCall == last'.op = "nr_write" /\ nr_size(ring) >= nr_capacity(ring)

RejectedCallChangesNothing ==
    UNCHANGED <<vec, vec_mem, ring, list, list_heap, list2, list2_heap, out>>

\* C10: in the hardened build, from every reachable state: nr_write on a full
\* ring returns NANODS_ERR_FULL; nr_read, nr_peek, nv_pop, ns_pop, ns_peek,
\* nl_pop_front, nl2_pop_front, nl2_pop_back on an empty container return
\* NANODS_ERR_EMPTY; nv_get and nv_set with index >= size return
\* NANODS_ERR_BOUNDS; each leaves the container and the output slot unchanged.
C10_HardenedRejects ==
    [][hard_safety =>
         /\ EmptyCall => (last'.ret = NANODS_ERR_EMPTY /\ RejectedCallChangesNothing)
         /\ FullCall => (last'.ret = NANODS_ERR_FULL /\ RejectedCallChangesNothing)
         /\ \A i \in 0..MaxLen :
               /\ (NvGet(i) /\ i >= nv_size(vec))
                  => (last'.ret = NANODS_ERR_BOUNDS /\ RejectedCallChangesNothing)
               /\ \A v \in Values :
                     (NvSet(i, v) /\ i >= nv_size(vec))
                     => (last'.ret = NANODS_ERR_BOUNDS /\ RejectedCallChangesNothing)
      ]_vars

\* the hardened build has rejected nv_get(size): the output slot still holds
\* the element an earlier nv_get stored there
C10_Witness ==
    /\ hard_safety
    /\ last.op = "nv_get"
    /\ last.ret = NANODS_ERR_BOUNDS
    /\ nv_size(vec) = 2
    /\ out = 1

\* the capacities nv_reserve is asked for
ReserveArgs == (0..MaxReserve) \cup {SIZE_MAX}

\* C11: nv_reserve(vec, n) with n <= capacity returns NANODS_OK and changes
\* nothing; with n > capacity it returns NANODS_ERR_OVERFLOW when n * sizeof(T)
\* exceeds SIZE_MAX, NANODS_ERR_NOMEM when realloc fails, and in both cases
\* data, size, capacity and the buffer are as before; when it succeeds,
\* capacity = n and size, flags and the elements at [0, size) are as before.
C11_Reserve ==
    [][\A n \in ReserveArgs, ok \in BOOLEAN :
          NvReserve(n, ok) =>
            IF n <= vec.capacity
            THEN last'.ret = NANODS_OK /\ UNCHANGED <<vec, vec_mem>>
            ELSE IF n * sizeof_T > SIZE_MAX
            THEN last'.ret = NANODS_ERR_OVERFLOW /\ UNCHANGED <<vec, vec_mem>>
            ELSE IF ~ok
            THEN last'.ret = NANODS_ERR_NOMEM /\ UNCHANGED <<vec, vec_mem>>
            ELSE /\ last'.ret = NANODS_OK
                 /\ vec'.capacity = n
                 /\ vec'.size = vec.size
                 /\ vec'.flags = vec.flags
                 /\ vec'.data # NULL
                 /\ Len(vec_mem') = n
                 /\ \A i \in 0..(vec.size - 1) : Load(vec_mem', i) = Load(vec_mem, i)
      ]_vars

\* a vector of capacity 2 holding 2, 1 has just been grown to capacity 3
C11_Witness ==
    /\ last.op = "nv_reserve"
    /\ last.ret = NANODS_OK
    /\ vec.capacity = 3
    /\ nv_size(vec) = 2
    /\ vec_hist = <<2, 1>>

\* the map, its bucket array and its entries
MapState == <<map, map_buckets, map_heap>>

\* C12: nm_remove(k) on a present key returns NANODS_OK, decreases size by
\* one, makes nm_get(k) and nm_has(k) a miss and leaves every other key with
\* its value, whether k's node is first, in the middle or last in its chain;
\* on an absent key (a map without bucket array included) it returns
\* NANODS_ERR_NOTFOUND and changes nothing.
C12_Remove ==
    [][\A k \in ChainKeys :
          NmRemove(k) =>
            IF nm_has(map, map_buckets, map_heap, k) = 1
            THEN /\ last'.ret = NANODS_OK
                 /\ nm_size(map') = nm_size(map) - 1
                 /\ nm_get(map', map_buckets', map_heap', k) = NULL
                 /\ nm_has(map', map_buckets', map_heap', k) = 0
                 /\ \A j \in ChainKeys \ {k} :
                       /\ nm_get(map', map_buckets', map_heap', j)
                            = nm_get(map, map_buckets, map_heap, j)
                       /\ nm_has(map', map_buckets', map_heap', j)
                            = nm_has(map, map_buckets, map_heap, j)
            ELSE last'.ret = NANODS_ERR_NOTFOUND /\ UNCHANGED MapState
      ]_vars

\* nm_remove has just unlinked the node at address 2 from below the chain
\* head at address 3: the chain is now 3 -> 1
C12_Witness ==
    /\ last.op = "nm_remove"
    /\ last.ret = NANODS_OK
    /\ map.bucket_count = 1
    /\ DOMAIN map_heap = {1, 3}
    /\ Load(map_buckets, 0) = 3
    /\ EntryAt(map_heap, 3).next = 1
    /\ nm_size(map) = 2

\* the elements a vector holds, data[0] .. data[size - 1]
Elements(v, mem) == [i \in 1..v.size |-> Load(mem, i - 1)]

\* C13: a successful nv_map leaves in `out` as many elements as `vec` holds,
\* the i-th being func(vec[i]); a successful nv_filter leaves in `out` exactly
\* the elements of `vec` the predicate accepts, in their order in `vec`; both
\* leave `vec` as it was; so nv_map with the identity and nv_filter with the
\* predicate that accepts everything reproduce `vec` element for element.
C13_MapFilter ==
    [][ /\ \A f \in Funcs, failing \in Failing :
            NvMap(f, failing) /\ last'.ret = NANODS_OK =>
                /\ nv_size(fn_out') = nv_size(vec)
                /\ \A i \in 0..(vec.size - 1) :
                       Load(fn_mem', i) = Apply(f, Load(vec_mem, i))
                /\ UNCHANGED <<vec, vec_mem>>
                /\ f = "identity" =>
                       Elements(fn_out', fn_mem') = Elements(vec, vec_mem)
        /\ \A p \in Preds, failing \in Failing :
            NvFilter(p, failing) /\ last'.ret = NANODS_OK =>
                /\ Elements(fn_out', fn_mem') =
                       SelectSeq(Elements(vec, vec_mem), LAMBDA x : Holds(p, x))
                /\ UNCHANGED <<vec, vec_mem>>
                /\ p = "always_true" =>
                       Elements(fn_out', fn_mem') = Elements(vec, vec_mem)]_vars

\* C13 witness: nv_filter with is_even has picked the four even elements out
\* of a vector of nine
C13_Witness ==
    /\ last.op = "nv_filter" /\ last.ret = NANODS_OK
    /\ Elements(vec, vec_mem) = <<1, 2, 1, 2, 1, 2, 1, 2, 1>>
    /\ Elements(fn_out, fn_mem) = <<2, 2, 2, 2>>

\* C14: when a push into `out` fails, nv_map and nv_filter return the error of
\* that push (out of memory or overflow), `out` is left with no block, size 0
\* and capacity 0, no block of the partial output stays allocated, and `vec`
\* is as it was.
C14_FailAtomically ==
    [][\A failing \in Failing :
          (\/ \E f \in Funcs : NvMap(f, failing)
           \/ \E p \in Preds : NvFilter(p, failing))
          /\ last'.ret # NANODS_OK =>
              /\ last'.ret \in {NANODS_ERR_NOMEM, NANODS_ERR_OVERFLOW}
              /\ last'.ret = NANODS_ERR_NOMEM => failing # {}
              /\ last'.ret = NANODS_ERR_OVERFLOW =>
                     2 * InitialCapacity * sizeof_T > SIZE_MAX
              /\ fn_out'.data = NULL /\ fn_out'.size = 0 /\ fn_out'.capacity = 0
              /\ fn_mem' = <<>>
              /\ UNCHANGED <<vec, vec_mem>>]_vars

\* C14 witness: nv_map over nine ints has failed at the ninth push, when the
\* output held eight elements in a block of eight, and the output is empty
C14_Witness ==
    /\ last.op = "nv_map" /\ last.ret = NANODS_ERR_OVERFLOW
    /\ sizeof_T = SizeofInt /\ nv_size(vec) = 9
    /\ fn_out = nv_init /\ fn_mem = <<>>

\* the caller's loop over the NanoIter has ended: the cursor reports no
\* further element (and the caller has not given the cursor up early)
LoopOver ==
    /\ it # NoIter
    /\ nanods_iter_has_next(it, miter) = 0
    /\ last.op # "nm_iter_free"

\* the entries of the map, as <<key, value>> pairs
MapEntries == {<<k, map_hist[k]>> : k \in DOMAIN map_hist}
Range(s) == {s[i] : i \in DOMAIN s}
NoRepeat(s) == \A i, j \in DOMAIN s : s[i] = s[j] => i = j

\* what a finished loop must have visited, in container order
VisitedAll ==
    CASE it.type = NANODS_ITER_VECTOR -> visited = vec_hist
      [] it.type = NANODS_ITER_LIST -> visited = list_hist
      [] it.type = NANODS_ITER_LIST2 -> visited = list2_hist
      [] it.type = NANODS_ITER_MAP ->
             /\ Len(visited) = nm_size(map)
             /\ NoRepeat(visited)
             /\ Range(visited) = MapEntries
      [] OTHER -> TRUE

SequenceCursor ==
    it.type \in {NANODS_ITER_VECTOR, NANODS_ITER_LIST, NANODS_ITER_LIST2}

\* C15: the loop `while (nanods_iter_has_next) { visit; advance }` over an
\* unmodified container of n elements ends after exactly n turns, having
\* visited the elements in container order (every entry once, for a map);
\* the ended cursor of a vector or list has finished = 1 and ptr = NULL, and a
\* further advance returns 0 and leaves the cursor as it is; over an empty
\* container the cursor has no element from the start.
C15_CursorVisitsAll ==
    /\ [](LoopOver => /\ VisitedAll
                      /\ SequenceCursor => it.finished = 1 /\ it.ptr = NULL)
    /\ [][(NvIterNext \/ NlIterNext \/ Nl2IterNext)
           /\ nanods_iter_has_next(it, miter) = 0
           => last'.val = 0 /\ it' = it /\ visited' = visited]_vars

\* the caller iterates with a NanoMapIterator of its own
OwnCursor == it = NoIter /\ miter.map # NULL

\* where key k stands in the order of insertion
InsertedAt(k) == CHOOSE i \in DOMAIN map_order : map_order[i] = k

\* entry a is handed out before entry b: its bucket has the lower index, or
\* they share a bucket and a was inserted after b
Before(a, b) ==
    \/ BucketIdx(map, a[1]) < BucketIdx(map, b[1])
    \/ /\ BucketIdx(map, a[1]) = BucketIdx(map, b[1])
       /\ InsertedAt(a[1]) > InsertedAt(b[1])

\* C16: after nm_iter_init, nm_iter_next on the unmodified map returns Ok
\* exactly nm_size times and then Empty, handing out every entry once, buckets
\* in ascending index order and, inside a bucket, the entry inserted last
\* first; an exhausted cursor answers Empty and stays as it is; on a map
\* without buckets or without entries the first nm_iter_next returns Empty.
C16_MapIterOrder ==
    /\ [](OwnCursor =>
             /\ Range(visited) \subseteq MapEntries
             /\ \A i, j \in DOMAIN visited :
                    i < j => Before(visited[i], visited[j])
             /\ miter.current = NULL <=> Len(visited) = nm_size(map))
    /\ [][NmIterNext =>
             IF Len(visited) < nm_size(map)
             THEN last'.ret = NANODS_OK /\ Len(visited') = Len(visited) + 1
             ELSE last'.ret = NANODS_ERR_EMPTY /\ UNCHANGED <<miter, visited>>]_vars

\* C16 witness: a one-bucket map of three entries has been walked to the end,
\* the entries came out last-inserted first, and the call after them
\* returned Empty
C16_Witness ==
    /\ OwnCursor
    /\ last.op = "nm_iter_next" /\ last.ret = NANODS_ERR_EMPTY
    /\ map.bucket_count = 1
    /\ map_order = <<Key(1), Key(2), Key(3)>>
    /\ Len(visited) = 3
    /\ [i \in 1..3 |-> visited[i][1]] = <<Key(3), Key(2), Key(1)>>

\* C17: in the hardened build no call reports a failure through a return
\* value that is also a valid result; for nm_get: the pointer it returns for
\* a key the map does not hold is never one it returns for a key it holds.
C17_NoSentinel ==
    [][\A k \in Keys :
          NmGet(k) /\ hard_safety =>
              (last'.val = NULL <=> k \notin DOMAIN map_hist)]_vars

\* C18: nanods_set_allocator(A) makes A the allocator nanods_get_allocator
\* returns, nanods_set_allocator(NULL) brings the default allocator back, and
\* every allocation, reallocation and release a container call makes after it
\* goes through the functions of the active allocator.
C18_ActiveAllocator ==
    /\ [][\A a \in Allocators \cup {NULL} :
             NanodsSetAllocator(a) =>
                 g_nanods_allocator' =
                     IF a = NULL THEN g_nanods_default_allocator ELSE a]_vars
    /\ [][NanodsGetAllocator => last'.val = g_nanods_allocator]_vars
    /\ [](\A p \in alloc_via : p = AllocatorFn(g_nanods_allocator, p.fn))

\* the entries of the chain that starts at `entry`, as <<key, value>> pairs
RECURSIVE ChainSeq(_, _, _)
ChainSeq(heap, entry, fuel) ==
    IF entry = NULL \/ fuel = 0 THEN <<>>
    ELSE <<<<EntryAt(heap, entry).key, EntryAt(heap, entry).value>>>>
         \o ChainSeq(heap, EntryAt(heap, entry).next, fuel - 1)

\* what each bucket of a map holds
BucketContents(m, buckets, heap) ==
    [i \in 0..(m.bucket_count - 1) |->
        ChainSeq(heap, Load(buckets, i), Cardinality(DOMAIN heap))]

\* what nm_iter_next hands out, call after call, until it returns Empty
RECURSIVE Drain(_, _, _, _, _)
Drain(iter, m, buckets, heap, fuel) ==
    LET r == nm_iter_next(iter, m, buckets, heap) IN
    IF r.err # NANODS_OK \/ fuel = 0 THEN <<>>
    ELSE <<<<r.key, r.value>>>> \o Drain(r.iter, m, buckets, heap, fuel - 1)

IterationOrder(m, buckets, heap) ==
    Drain(nm_iter_init(m, buckets), m, buckets, heap, Cardinality(DOMAIN heap))

\* C19: after nanods_seed_init(s), s nonzero, nanods_get_seed returns s until
\* the next nanods_seed_init; two maps constructed while the seed is s and
\* given the same set / remove / clear calls have the same seed, the same
\* bucket contents and the same nm_iter_next order.
C19_SeededDeterminism ==
    /\ [][\A s \in Seeds, e \in Entropy :
             NanodsSeedInit(s, e) => g_nanods_hash_seed' = s]_vars
    /\ [][\A e \in EntropyNow :
             NanodsGetSeed(e) /\ g_nanods_seed_initialized = 1 =>
                 last'.val = g_nanods_hash_seed /\ UNCHANGED seedVars]_vars
    /\ [](twin.made /\ twin.seed # 0 /\ twin.pending = NoCall =>
             /\ map.seed = map_b.seed
             /\ BucketContents(map, map_buckets, map_heap) =
                    BucketContents(map_b, map_b_buckets, map_b_heap)
             /\ IterationOrder(map, map_buckets, map_heap) =
                    IterationOrder(map_b, map_b_buckets, map_b_heap))

\* C20: nv_free and ns_free release the block and leave data NULL, size 0 and
\* capacity 0, the flags as they were; the block of a secure vector is zero
\* over all of its capacity when it is released; on a vector that has no
\* block the call releases nothing and changes nothing; and the freed vector
\* takes a push exactly as a vector fresh from nv_init_ex with those flags.
C20_Free ==
    [][NvFree \/ NsFree =>
         /\ vec'.data = NULL /\ vec'.size = 0 /\ vec'.capacity = 0
         /\ vec'.flags = vec.flags
         /\ vec_mem' = <<>>
         /\ IF vec.data = NULL
            THEN vec_freed' = <<>> /\ vec' = vec
            ELSE /\ Len(vec_freed') = 1
                 /\ Len(vec_freed'[1]) = vec.capacity
                 /\ IF Secure(vec.flags)
                    THEN \A i \in 1..vec.capacity : vec_freed'[1][i] = 0
                    ELSE vec_freed'[1] = vec_mem
         /\ \A v \in Values, ok \in BOOLEAN :
                nv_push(vec', vec_mem', v, sizeof_T, ok) =
                    nv_push(nv_init_ex(vec.flags), <<>>, v, sizeof_T, ok)]_vars

\* C20 witness: nv_free has released the block of a secure vector of ints,
\* eight slots, all of them zero
C20_Witness ==
    /\ last.op = "nv_free"
    /\ Secure(vec.flags) /\ sizeof_T = SizeofInt
    /\ vec = nv_init_ex(NANODS_FLAG_SECURE)
    /\ vec_freed = <<[i \in 1..InitialCapacity |-> 0]>>

\* the data of the nodes reached from `a` by following next, in that order
RECURSIVE HeadToTail(_, _, _)
HeadToTail(heap, a, fuel) ==
    IF a = NULL \/ fuel = 0 THEN <<>>
    ELSE <<Node2At(heap, a).data>>
         \o HeadToTail(heap, Node2At(heap, a).next, fuel - 1)

\* the data of the nodes reached from `a` by following prev, the last one
\* reached first
RECURSIVE TailToHead(_, _, _)
TailToHead(heap, a, fuel) ==
    IF a = NULL \/ fuel = 0 THEN <<>>
    ELSE Append(TailToHead(heap, Node2At(heap, a).prev, fuel - 1),
                Node2At(heap, a).data)

\* the elements of the List2 in head-to-tail order, read off the nodes
List2Elements(l, heap) == HeadToTail(heap, l.head, MaxLen + 1)

\* C21: nl2_insert_after on the k-th node of a List2 puts the new value right
\* after it in head-to-tail order, adds one to size, keeps the other elements
\* in order and makes the new node the tail when the k-th node was the tail;
\* nl2_remove_node on the k-th node takes exactly that element out, keeps the
\* order of the others, takes one from size and moves head and tail when the
\* node was at an end (both NULL when it was the only node). The prev links
\* from the tail spell the same sequence as the next links from the head.
C21_InsertRemove ==
    [][ /\ \A k \in 1..MaxLen, v \in Values, ok \in BOOLEAN :
             (Nl2InsertAfter(k, v, ok) /\ last'.ret = NANODS_OK)
             => LET node == NthNode(list2_heap, list2.head, k) IN
                /\ List2Elements(list2', list2_heap') =
                       InsertAt(List2Elements(list2, list2_heap), k, v)
                /\ TailToHead(list2_heap', list2'.tail, MaxLen + 1) =
                       List2Elements(list2', list2_heap')
                /\ Node2At(list2_heap', node).next \notin DOMAIN list2_heap
                /\ list2'.size = list2.size + 1
                /\ list2'.head = list2.head
                /\ list2'.tail = IF node = list2.tail
                                 THEN Node2At(list2_heap', node).next
                                 ELSE list2.tail
        /\ \A k \in 1..MaxLen :
             Nl2RemoveNode(k)
             => LET node == NthNode(list2_heap, list2.head, k) IN
                /\ last'.ret = NANODS_OK
                /\ List2Elements(list2', list2_heap') =
                       RemoveAt(List2Elements(list2, list2_heap), k)
                /\ TailToHead(list2_heap', list2'.tail, MaxLen + 1) =
                       List2Elements(list2', list2_heap')
                /\ DOMAIN list2_heap' = DOMAIN list2_heap \ {node}
                /\ list2'.size = list2.size - 1
                /\ list2'.head = IF node = list2.head
                                 THEN Node2At(list2_heap, node).next
                                 ELSE list2.head
                /\ list2'.tail = IF node = list2.tail
                                 THEN Node2At(list2_heap, node).prev
                                 ELSE list2.tail
                /\ list2.size = 1 => list2'.head = NULL /\ list2'.tail = NULL
      ]_vars

\* the list held 1, 2; nl2_insert_after on its tail added 2 and the new node
\* is the tail
C21_Witness ==
    /\ last.op = "nl2_insert_after"
    /\ last.ret = NANODS_OK
    /\ List2Elements(list2, list2_heap) = <<1, 2, 2>>
    /\ list2_hist = <<1, 2, 2>>
    /\ Node2At(list2_heap, list2.tail).prev =
           Node2At(list2_heap, list2.head).next
    /\ list2.tail \notin {NULL, Node2At(list2_heap, list2.head).next}

\* C22: the capacity of a vector is 0 after init; a push that succeeds makes
\* it 8 when it found capacity 0, twice what it was when it found the vector
\* full, and leaves it alone when it found room, and a push that fails leaves
\* it alone; so the capacity of a vector that is pushed to and never reserved
\* is 0 or 8 * 2^k; pop, set, get and clear never change the capacity.
C22_Growth ==
    /\ [](last.op = "init" => vec.capacity = 0)
    /\ [][\A ok \in BOOLEAN :
             NvPushMany(1, ok)
             => vec'.capacity =
                   IF last'.ret # NANODS_OK THEN vec.capacity
                   ELSE IF vec.capacity = 0 THEN 8
                   ELSE IF vec.size = vec.capacity THEN 2 * vec.capacity
                   ELSE vec.capacity]_vars
    /\ [](vec.capacity \in {0} \cup {8 * Pow2(k) : k \in 0..SizeBits})
    /\ [][(\/ \E i \in {0, MaxLen} : NvGet(i) \/ NvSet(i, 1)
           \/ NvPop(TRUE)
           \/ NvClear)
          => vec'.capacity = vec.capacity]_vars

\* the 17th push on a vector of char found it full at 16 and doubled it to 32
C22_Witness ==
    /\ last.op = "nv_push"
    /\ last.ret = NANODS_OK
    /\ sizeof_T = SizeofChar
    /\ vec.size = 17
    /\ vec.capacity = 32
    /\ Len(vec_mem) = 32

\* C23: in SizeBits-bit arithmetic, a push on a full vector of capacity c > 0
\* whose doubled capacity wraps below c, or whose 2c * sizeof(T) bytes exceed
\* SIZE_MAX, returns Overflow and leaves data, size, capacity and the block as
\* they were; no push and no reserve ever lowers the capacity; and the block
\* always has room for capacity elements, capacity * sizeof(T) bytes that fit
\* in a size_t.
C23_GrowthOverflow ==
    /\ [][\A ok \in BOOLEAN :
             (/\ NvPushMany(1, ok)
              /\ vec.capacity > 0
              /\ vec.size = vec.capacity
              /\ \/ Wrap(2 * vec.capacity) < vec.capacity
                 \/ 2 * vec.capacity * sizeof_T > SIZE_MAX)
             => /\ last'.ret = NANODS_ERR_OVERFLOW
                /\ vec' = vec
                /\ vec_mem' = vec_mem]_vars
    /\ [][(\/ \E n \in ReserveSizes, ok \in BOOLEAN : NvReserve(n, ok)
           \/ \E ok \in BOOLEAN : NvPushMany(1, ok))
          => vec'.capacity >= vec.capacity]_vars
    /\ [](/\ Len(vec_mem) = vec.capacity
          /\ vec.capacity * sizeof_T <= SIZE_MAX)

\* the 33rd push on a vector of char found it full at 32, a capacity whose
\* double wraps to 0, and returned Overflow
C23_Witness ==
    /\ last.op = "nv_push"
    /\ last.ret = NANODS_ERR_OVERFLOW
    /\ sizeof_T = SizeofChar
    /\ vec.size = 32
    /\ vec.capacity = 32
    /\ Wrap(2 * vec.capacity) = 0

\* an nm_set that finds no bucket array and whose allocation of one succeeds
\* leaves 16 buckets
FirstSetAllocates16 ==
    \A k \in Keys, v \in Pointers, e \in Entropy \cup {0}, a \in AllocFailures :
        (NmSet(k, v, e, a) /\ map.bucket_count = 0 /\ a # "buckets")
        => /\ map'.bucket_count = 16
           /\ Len(map_buckets') = 16

\* nm_init_with_capacity(0) and nm_init_with_capacity_ex(0, flags), when they
\* succeed, leave 16 buckets, all of them empty
CapacityZeroYields16 ==
    \A e \in Entropy \cup {0}, f \in Flags :
        ((NmInitWithCapacity(0, e, TRUE) \/ NmInitWithCapacityEx(0, f, e, TRUE))
         /\ last'.ret = NANODS_OK)
        => /\ map'.bucket_count = 16
           /\ map_buckets' = [i \in 1..16 |-> NULL]

Emptied ==
    /\ DOMAIN map_heap' = {}
    /\ map_released' = {Released(Secure(map.flags)) : x \in DOMAIN map_heap}
    /\ map'.size = 0
    /\ map'.seed = map.seed /\ map'.flags = map.flags
    /\ \A i \in DOMAIN map_buckets' : map_buckets'[i] = NULL
    /\ \A k \in Keys :
          /\ nm_get(map', map_buckets', map_heap', k) = NULL
          /\ nm_has(map', map_buckets', map_heap', k) = 0
    /\ \A k \in Keys, v \in Pointers, e \in Entropy :
          LET r == nm_set(map', map_buckets', map_heap', k, v,
                          g_nanods_hash_seed', g_nanods_seed_initialized', e,
                          TRUE, TRUE, TRUE)
          IN /\ r.err = NANODS_OK
             /\ nm_size(r.map) = 1
             /\ nm_get(r.map, r.buckets, r.heap, k) = v
             /\ nm_has(r.map, r.buckets, r.heap, k) = 1

\* C25: nm_clear releases every chain node of every bucket, sets size to 0
\* and every bucket head to NULL and keeps the bucket array and bucket_count;
\* nm_free does the same, releases the bucket array as well and sets
\* bucket_count to 0; after either call every key is a miss and a following
\* nm_set succeeds and is found again.
C25_ClearFree ==
    [][ /\ NmClear => /\ Emptied
                      /\ map'.buckets = map.buckets
                      /\ Len(map_buckets') = Len(map_buckets)
                      /\ map'.bucket_count = map.bucket_count
        /\ NmFree => /\ Emptied
                     /\ map'.buckets = NULL
                     /\ map_buckets' = <<>>
                     /\ map'.bucket_count = 0
      ]_vars

\* nm_clear on a one-bucket map whose chain held entries: they were released
\* and the bucket is still there, empty
C25_Witness ==
    /\ last.op = "nm_clear"
    /\ map_released # {}
    /\ map.bucket_count = 1
    /\ map_buckets = <<NULL>>
    /\ DOMAIN map_heap = {}
    /\ nm_size(map) = 0

\* C26: there is no rehash and no resize: once the bucket array of a map is
\* allocated, nm_set, nm_get, nm_has, nm_remove and nm_clear leave
\* bucket_count and the bucket array where they are, however many entries
\* the buckets hold; bucket_count changes only when nm_free releases the map.
C26_NoRehash ==
    [][ /\ (/\ map.buckets # NULL
            /\ \/ \E k \in Keys, v \in Pointers, e \in Entropy,
                     a \in AllocFailures : NmSet(k, v, e, a)
               \/ \E k \in Keys : NmGet(k) \/ NmHas(k) \/ NmRemove(k)
               \/ NmClear)
           => /\ map'.bucket_count = map.bucket_count
              /\ map'.buckets = map.buckets
              /\ Len(map_buckets') = map.bucket_count
        /\ (map.buckets # NULL /\ map'.bucket_count # map.bucket_count)
           => NmFree /\ map'.bucket_count = 0
      ]_vars

\* the second nm_set on a one-bucket map: two entries share the one bucket
C26_Witness ==
    /\ last.op = "nm_set"
    /\ last.ret = NANODS_OK
    /\ nm_size(map) = 2
    /\ map.bucket_count = 1
    /\ Len(map_buckets) = 1

\* C27: peek does not consume: ns_peek on a non-empty stack returns Ok and
\* the value the next ns_pop returns, nr_peek on a non-empty ring returns Ok
\* and the value the next nr_read returns; neither changes a field or a slot
\* of the container, and a peek repeated at once returns the same value.
C27_PeekKeeps ==
    [][ /\ (NsPeek /\ vec.size > 0)
           => /\ last'.ret = NANODS_OK
              /\ vec' = vec /\ vec_mem' = vec_mem
              /\ out' = ns_pop(vec', vec_mem', Indet, TRUE, hard_safety).out
              /\ out' = ns_peek(vec', vec_mem', Indet, hard_safety).out
              /\ out' = Last(vec_hist)
        /\ (NrPeek /\ ring.count > 0)
           => /\ last'.ret = NANODS_OK
              /\ ring' = ring
              /\ out' = nr_read(ring', Indet, hard_safety).out
              /\ out' = nr_peek(ring', Indet, hard_safety).out
              /\ out' = Head(ring_hist)
      ]_vars

\* 1 and 2 were pushed on the stack: ns_peek returned 2 and both are still
\* there
C27_Witness ==
    /\ last.op = "ns_peek"
    /\ last.ret = NANODS_OK
    /\ out = 2
    /\ vec_hist = <<1, 2>>
    /\ vec.size = 2
    /\ Load(vec_mem, 0) = 1 /\ Load(vec_mem, 1) = 2

\* the ring after nr_write of ws[i], ws[i + 1], ... in turn, and whether all
\* of the writes returned Ok
RECURSIVE WriteAll(_, _, _)
WriteAll(r, ws, i) ==
    IF i > Len(ws) THEN [ring |-> r, ok |-> TRUE]
    ELSE LET w == nr_write(r, ws[i], TRUE) IN
         IF w.err # NANODS_OK THEN [ring |-> r, ok |-> FALSE]
         ELSE WriteAll(w.ring, ws, i + 1)

\* what n calls of nr_read hand out, in turn
RECURSIVE ReadAll(_, _)
ReadAll(r, n) ==
    IF n = 0 THEN <<>>
    ELSE LET d == nr_read(r, Indet, TRUE) IN
         IF d.err # NANODS_OK THEN <<>>
         ELSE <<d.out>> \o ReadAll(d.ring, n - 1)

\* C28: nr_clear sets head, tail and count to 0 and keeps capacity and flags;
\* with the secure flag all N slots are zero afterwards, without it every
\* slot holds what it held; the cleared ring is what nr_init_ex leaves: it is
\* empty, N writes succeed and N reads return them in the order written.
C28_RingClear ==
    [][NrClear =>
         /\ ring'.head = 0 /\ ring'.tail = 0 /\ ring'.count = 0
         /\ ring'.capacity = ring.capacity /\ ring'.flags = ring.flags
         /\ ring'.data = IF Secure(ring.flags) THEN [i \in 1..RingN |-> 0]
                         ELSE ring.data
         /\ ring' = nr_init_ex(ring'.data, ring.flags)
         /\ nr_is_empty(ring') = 1
         /\ \A ws \in [1..RingN -> Values] :
                LET w == WriteAll(ring', ws, 1) IN
                /\ w.ok
                /\ nr_is_full(w.ring) = 1
                /\ ReadAll(w.ring, RingN) = ws]_vars

\* nr_clear on a secure ring: the slots, indeterminate or written before,
\* are all zero and head, tail and count are 0
C28_Witness ==
    /\ last.op = "nr_clear"
    /\ Secure(ring.flags)
    /\ ring.data = [i \in 1..RingN |-> 0]
    /\ ring.head = 0 /\ ring.tail = 0 /\ ring.count = 0
    /\ ring.capacity = RingN

\* C29: for all a and b of SizeBits bits, nanods_check_mul_overflow returns 1
\* and leaves the result slot as it was exactly when a * b > SIZE_MAX, and
\* returns 0 with a * b in the slot otherwise; nanods_check_add_overflow does
\* the same for a + b.
C29_CheckedArithmetic ==
    [][ /\ NanodsCheckMulOverflow
           => IF arith.a * arith.b > SIZE_MAX
              THEN last'.val = 1 /\ arith'.result = arith.result
              ELSE last'.val = 0 /\ arith'.result = arith.a * arith.b
        /\ NanodsCheckAddOverflow
           => IF arith.a + arith.b > SIZE_MAX
              THEN last'.val = 1 /\ arith'.result = arith.result
              ELSE last'.val = 0 /\ arith'.result = arith.a + arith.b
      ]_vars

\* 8 * 8 is one more than SIZE_MAX: the multiply check has returned 1 and the
\* slot is still uninitialised
C29_Witness ==
    /\ last.op = "nanods_check_mul_overflow"
    /\ last.val = 1
    /\ arith.a = 8 /\ arith.b = 8
    /\ arith.a * arith.b = SIZE_MAX + 1
    /\ arith.result = Indet

\* C30: in every state a vector reaches from nv_init or nv_init_ex through
\* reserve, push, pop, get, set, clear and free, the calls that fail
\* included, size <= capacity, data is non-null exactly when capacity > 0,
\* the block has capacity slots and every index below size is one of them.
C30_VectorInvariant ==
    /\ vec.size <= vec.capacity
    /\ (vec.data # NULL) <=> (vec.capacity > 0)
    /\ Len(vec_mem) = vec.capacity
    /\ \A i \in 0..(vec.size - 1) : (i + 1) \in DOMAIN vec_mem

\* a push on a full vector of capacity 2 has failed for want of memory: the
\* vector still holds its two elements in its two slots
C30_Witness ==
    /\ last.op = "nv_push"
    /\ last.ret = NANODS_ERR_NOMEM
    /\ vec.size = 2
    /\ vec.capacity = 2
    /\ vec.data # NULL
    /\ Len(vec_mem) = 2

\* C31: in every state a ring reaches from nr_init or nr_init_ex through
\* write, read, peek and clear, the rejected calls included, count is in
\* 0..N, head and tail are below N, capacity is N, tail is (head + count)
\* mod N, and nr_is_full and nr_is_empty are never both 1.
C31_RingInvariant ==
    /\ ring.count \in 0..RingN
    /\ ring.head \in 0..(RingN - 1)
    /\ ring.tail \in 0..(RingN - 1)
    /\ ring.capacity = RingN
    /\ Len(ring.data) = RingN
    /\ ring.tail = (ring.head + ring.count) % RingN
    /\ ~(nr_is_full(ring) = 1 /\ nr_is_empty(ring) = 1)

\* a write on a full ring whose head and tail have moved on to slot 1 has
\* been rejected with Full
C31_Witness ==
    /\ last.op = "nr_write"
    /\ last.ret = NANODS_ERR_FULL
    /\ ring.count = RingN
    /\ ring.head = 1 /\ ring.tail = 1
    /\ nr_is_full(ring) = 1

\* the <<key, value>> pairs of the chains of buckets i, i + 1, ... one chain
\* after the other
RECURSIVE ChainsFrom(_, _, _, _)
ChainsFrom(m, buckets, heap, i) ==
    IF i >= m.bucket_count THEN <<>>
    ELSE ChainSeq(heap, Load(buckets, i), Cardinality(DOMAIN heap) + 1)
         \o ChainsFrom(m, buckets, heap, i + 1)

\* the keys of the chain nodes of the map, bucket after bucket
StoredKeys(m, buckets, heap) ==
    LET all == ChainsFrom(m, buckets, heap, 0) IN
    [i \in 1..Len(all) |-> all[i][1]]

\* C32: in every reachable state of a map, size is the number of chain nodes
\* over all buckets, and no key is stored in two nodes, in one chain or in
\* two; the nodes on the chains are the live entries of the map.
C32_SizeAndUniqueKeys ==
    /\ map.size = Len(StoredKeys(map, map_buckets, map_heap))
    /\ NoRepeat(StoredKeys(map, map_buckets, map_heap))
    /\ ChainNodes(map_buckets, map_heap) = DOMAIN map_heap
    /\ map.size = Cardinality(DOMAIN map_heap)

\* nm_set has returned Ok on a one-bucket map: the two keys share its one
\* chain and size is 2
C32_Witness ==
    /\ last.op = "nm_set"
    /\ last.ret = NANODS_OK
    /\ map.bucket_count = 1
    /\ nm_size(map) = 2
    /\ Len(StoredKeys(map, map_buckets, map_heap)) = 2
    /\ \A k \in Keys : map_hist[k] = 2

\* the addresses of the nodes reached from `a` by following next, in order
RECURSIVE NextWalk(_, _, _)
NextWalk(heap, a, fuel) ==
    IF a = NULL \/ fuel = 0 THEN <<>>
    ELSE <<a>> \o NextWalk(heap, Node2At(heap, a).next, fuel - 1)

\* the addresses of the nodes reached from `a` by following prev, in order
RECURSIVE PrevWalk(_, _, _)
PrevWalk(heap, a, fuel) ==
    IF a = NULL \/ fuel = 0 THEN <<>>
    ELSE <<a>> \o PrevWalk(heap, Node2At(heap, a).prev, fuel - 1)

Reverse(s) == [i \in 1..Len(s) |-> s[Len(s) + 1 - i]]

\* C33: in every state of a List2 reached through push_front, push_back,
\* pop_front, pop_back, insert_after and remove_node on member nodes, failed
\* calls included: the next and prev links of neighbours mirror each other,
\* head.prev and tail.next are NULL, head is NULL iff tail is NULL iff size is
\* 0, and the walk along next from head and the walk along prev from tail
\* each visit size nodes, all of them live, one the reverse of the other.
C33_List2Links ==
    LET fwd == NextWalk(list2_heap, list2.head, MaxLen + 2)
        bwd == PrevWalk(list2_heap, list2.tail, MaxLen + 2)
    IN /\ \A n \in DOMAIN list2_heap :
             /\ list2_heap[n].next # NULL
                => /\ list2_heap[n].next \in DOMAIN list2_heap
                   /\ list2_heap[list2_heap[n].next].prev = n
             /\ list2_heap[n].prev # NULL
                => /\ list2_heap[n].prev \in DOMAIN list2_heap
                   /\ list2_heap[list2_heap[n].prev].next = n
       /\ list2.head # NULL => /\ list2.head \in DOMAIN list2_heap
                               /\ list2_heap[list2.head].prev = NULL
       /\ list2.tail # NULL => /\ list2.tail \in DOMAIN list2_heap
                               /\ list2_heap[list2.tail].next = NULL
       /\ (list2.head = NULL) <=> (list2.size = 0)
       /\ (list2.tail = NULL) <=> (list2.size = 0)
       /\ Len(fwd) = list2.size
       /\ Len(bwd) = list2.size
       /\ bwd = Reverse(fwd)
       /\ Range(fwd) = DOMAIN list2_heap
       /\ NoRepeat(fwd)

\* nl2_remove_node has left two nodes: each is the other's neighbour
C33_Witness ==
    /\ last.op = "nl2_remove_node"
    /\ last.ret = NANODS_OK
    /\ list2.size = 2
    /\ list2.head # list2.tail
    /\ Node2At(list2_heap, list2.head).next = list2.tail
    /\ Node2At(list2_heap, list2.tail).prev = list2.head

\* the addresses of the singly linked nodes reached from `a`, in order
RECURSIVE ChainFrom(_, _, _)
ChainFrom(heap, a, fuel) ==
    IF a = NULL \/ fuel = 0 THEN <<>>
    ELSE <<a>> \o ChainFrom(heap, NodeAt(heap, a).next, fuel - 1)

\* C34: in every state of a singly linked List reached through push_front,
\* push_back, pop_front and free, failed calls included: head is NULL iff
\* size is 0 iff tail is NULL, tail.next is NULL, size 1 implies head = tail,
\* and the chain from head has no cycle, holds exactly size nodes, all of
\* them live, and ends at tail.
C34_ListShape ==
    LET chain == ChainFrom(list_heap, list.head, MaxLen + 2) IN
    /\ (list.head = NULL) <=> (list.size = 0)
    /\ (list.tail = NULL) <=> (list.size = 0)
    /\ list.tail # NULL => /\ list.tail \in DOMAIN list_heap
                           /\ list_heap[list.tail].next = NULL
    /\ list.size = 1 => list.head = list.tail
    /\ NoRepeat(chain)
    /\ Len(chain) = list.size
    /\ Range(chain) = DOMAIN list_heap
    /\ list.size > 0 => chain[Len(chain)] = list.tail

\* nl_pop_front has taken a list from two nodes to one: head and tail are the
\* same node
C34_Witness ==
    /\ last.op = "nl_pop_front"
    /\ last.ret = NANODS_OK
    /\ list.size = 1
    /\ list.head = list.tail
    /\ list.head # NULL

\* C35: no block that a call on a secure vector hands back to the allocator
\* still holds element data: nv_free wipes the buffer before it releases it,
\* and the old buffer that realloc releases when nv_push or nv_reserve grows
\* the vector holds no element either.
C35_ZeroedBeforeRelease ==
    Secure(vec.flags)
    => \A i \in DOMAIN vec_freed :
          \A j \in DOMAIN vec_freed[i] : vec_freed[i][j] \notin Values

\* C36: whatever calls of nanods_set_allocator come between the container
\* calls, a block handed to a realloc_fn or a free_fn goes to the allocator
\* it came from.
C36_SameAllocator == vec_alloc.from = vec_alloc.to

\* C37: the blocks a container has allocated and not released are exactly
\* the blocks its pointers lead to (none is leaked, none is reachable after
\* its release, so none is released twice or used after release), also after
\* a call that failed on an allocation; the container's free releases every
\* block, each once, and a free of a container without blocks releases
\* nothing; nm_iter_free releases the state block of nm_iter and sets
\* it.internal to NULL, and on a cursor without state block it does nothing.
C37_Paired ==
    /\ [](/\ (vec.data = NULL) <=> (vec_mem = <<>>)
          /\ Range(ChainFrom(list_heap, list.head, MaxLen + 2))
                 = DOMAIN list_heap
          /\ Range(NextWalk(list2_heap, list2.head, MaxLen + 2))
                 = DOMAIN list2_heap
          /\ (map.buckets = NULL) <=> (map_buckets = <<>>)
          /\ ChainNodes(map_buckets, map_heap) = DOMAIN map_heap
          /\ \A i \in DOMAIN map_buckets :
                 map_buckets[i] \in DOMAIN map_heap \cup {NULL}
          /\ \A e \in DOMAIN map_heap :
                 map_heap[e].next \in DOMAIN map_heap \cup {NULL}
          /\ (it.internal = NULL) => (miter = NoMapIter \/ it = NoIter))
    /\ [][NvFree
            => /\ vec'.data = NULL /\ vec_mem' = <<>>
               /\ Len(vec_freed') = IF vec.data # NULL THEN 1 ELSE 0]_vars
    /\ [][NlFree => list'.head = NULL /\ DOMAIN list_heap' = {}]_vars
    /\ [][Nl2Free => list2'.head = NULL /\ DOMAIN list2_heap' = {}]_vars
    /\ [][NmFree
            => /\ map'.buckets = NULL /\ map_buckets' = <<>>
               /\ DOMAIN map_heap' = {}]_vars
    /\ [][(\E k \in Keys, v \in Pointers, e \in EntropyNow,
              a \in AllocFailures : NmSet(k, v, e, a))
            /\ last'.ret # NANODS_OK
            => DOMAIN map_heap' = DOMAIN map_heap]_vars
    /\ [][NmIterFree
            => /\ it'.internal = NULL
               /\ miter' = NoMapIter
               /\ it.internal = NULL => it' = it /\ miter' = miter]_vars

\* nm_free has released the nodes and the bucket array of a populated map and
\* the state block of a cursor on that map is still allocated
C37_Witness ==
    /\ last.op = "nm_free"
    /\ map_released # {}
    /\ DOMAIN map_heap = {}
    /\ map.buckets = NULL
    /\ it.type = NANODS_ITER_MAP
    /\ it.internal # NULL

\* C38: in every state of a map, with nanods_seed_init called between the
\* map's calls and after nm_clear or nm_free followed by new sets, every
\* entry lies in the chain of bucket hash(key, map.seed) mod bucket_count for
\* the seed the map holds now; nm_has and nm_get find exactly the keys set
\* and not removed, with the value last set, and nm_remove of such a key
\* returns Ok.
C38_BucketOfCurrentSeed ==
    /\ [](/\ \A i \in DOMAIN map_buckets :
                 \A e \in Walk(map_heap, map_buckets[i], {}) :
                    BucketIdx(map, map_heap[e].key) = i - 1
          /\ \A k \in Keys :
                 /\ nm_has(map, map_buckets, map_heap, k) = 1
                       <=> k \in DOMAIN map_hist
                 /\ k \in DOMAIN map_hist
                       => nm_get(map, map_buckets, map_heap, k) = map_hist[k])
    /\ [][\A k \in Keys :
             NmRemove(k) /\ k \in DOMAIN map_hist
                => last'.ret = NANODS_OK /\ k \notin DOMAIN map_hist']_vars

\* nm_set has filled a 16-bucket map whose seed is no longer the seed its
\* constructor gave it; the two keys lie in two buckets, and one of them
\* would lie in another bucket under the constructor's seed
C38_Witness ==
    /\ last.op = "nm_set" /\ last.ret = NANODS_OK
    /\ map.bucket_count = 16
    /\ map_ctor.done
    /\ map.seed # map_ctor.seed
    /\ \A k \in Keys : k \in DOMAIN map_hist
    /\ BucketIdx(map, Key(1)) # BucketIdx(map, Key(2))
    /\ \E k \in Keys :
          BucketIdx(map, k) # Mod32(HashOf[k, map_ctor.seed], map.bucket_count)

\* C39: the output vector of nv_map and nv_filter carries no flag, whatever
\* the flags of the source: the output of a secure source does not have the
\* secure flag, and nv_free hands its block to free() with the elements in it.
C39_OutputUnflagged ==
    /\ [][(\E f \in Funcs, failing \in Failing : NvMap(f, failing))
            \/ (\E p \in Preds, failing \in Failing : NvFilter(p, failing))
            => fn_out'.flags = NANODS_FLAG_NONE]_vars
    /\ [][NvFreeOut /\ Secure(vec.flags)
            => nv_free(fn_out, fn_mem, sizeof_T).freed = <<fn_mem>>]_vars

\* nv_map has copied a secure vector of three elements: the output holds
\* them, has no flag, and nv_free would release them as they are
C39_Witness ==
    /\ last.op = "nv_map" /\ last.ret = NANODS_OK
    /\ Secure(vec.flags)
    /\ vec.size = 3
    /\ Elements(fn_out, fn_mem) = Elements(vec, vec_mem)
    /\ fn_out.flags = NANODS_FLAG_NONE
    /\ nv_free(fn_out, fn_mem, sizeof_T).freed = <<fn_mem>>

\* 32-bit FNV-1a written out on the four bytes of the accumulator, least
\* significant first, as the reference the code's function is compared with
RefBytes(h) == <<h[2] % 256, h[2] \div 256, h[1] % 256, h[1] \div 256>>
SeedBytes(n) ==
    <<n % 256, (n \div 256) % 256, (n \div 65536) % 256, (n \div 16777216) % 256>>

RECURSIVE RefXor8(_, _, _)
RefXor8(a, b, bits) ==
    IF bits = 0 THEN 0
    ELSE (((a % 2) + (b % 2)) % 2) + 2 * RefXor8(a \div 2, b \div 2, bits - 1)

\* 2166136261 = 0x811C9DC5
RefBasis == <<197, 157, 28, 129>>

\* h * 16777619 mod 2^32; 16777619 = 0x01000193 = 2^24 + 1 * 2^8 + 147
RefMul(h) ==
    LET c0 == h[1] * 147
        c1 == (h[2] * 147) + h[1] + (c0 \div 256)
        c2 == (h[3] * 147) + h[2] + (c1 \div 256)
        c3 == (h[4] * 147) + h[3] + h[1] + (c2 \div 256)
    IN <<c0 % 256, c1 % 256, c2 % 256, c3 % 256>>

RECURSIVE RefFold(_, _)
RefFold(h, key) ==
    IF key = <<>> THEN h
    ELSE RefFold(RefMul(<<RefXor8(h[1], Head(key), 8), h[2], h[3], h[4]>>),
                 Tail(key))

RefStart(seed) == [i \in 1..4 |-> RefXor8(RefBasis[i], SeedBytes(seed)[i], 8)]
RefHash(key, seed) == RefFold(RefStart(seed), key)

\* h mod n
RefMod(h, n) ==
    LET r3 == h[4] % n
        r2 == ((r3 * 256) + h[3]) % n
        r1 == ((r2 * 256) + h[2]) % n
    IN ((r1 * 256) + h[1]) % n

RefOf == [key \in Keys, seed \in 0..MaxSeed |-> RefHash(key, seed)]

\* the bucket the reference hash selects for `key` in the map, and whether
\* the chain of that bucket holds the key
RefBucket(key) == RefMod(RefOf[key, map.seed], map.bucket_count)
InRefBucket(key) ==
    /\ map.bucket_count > 0
    /\ \E e \in Walk(map_heap, Load(map_buckets, RefBucket(key)), {}) :
          map_heap[e].key = key

\* C40: nanods_fnv1a_hash_seeded(key, seed) is the 32-bit FNV-1a fold over
\* the bytes of the key, in order, started from 2166136261 XOR seed: seed 0
\* gives standard FNV-1a (0x811C9DC5 for the empty key, 0xE40C292C for "a"),
\* the empty key hashes to 2166136261 XOR seed; and nm_set, nm_get, nm_has
\* and nm_remove work on the chain of bucket hash(key, map.seed) mod
\* bucket_count.
C40_SeededFnv1a ==
    /\ [](hashed.result # <<>>
          => /\ RefBytes(hashed.result) = RefHash(hashed.key, hashed.seed)
             /\ hashed.key = <<>>
                   => RefBytes(hashed.result) = RefStart(hashed.seed)
             /\ hashed.key = <<>> /\ hashed.seed = 0
                   => RefBytes(hashed.result) = <<197, 157, 28, 129>>
             /\ hashed.key = <<97>> /\ hashed.seed = 0
                   => RefBytes(hashed.result) = <<44, 41, 12, 228>>)
    /\ [](\A i \in DOMAIN map_buckets :
             \A e \in Walk(map_heap, map_buckets[i], {}) :
                RefBucket(map_heap[e].key) = i - 1)
    /\ [][\A k \in Keys :
             /\ (\E e \in EntropyNow : NmSet(k, 1, e, "none"))
                   => InRefBucket(k)'
             /\ NmHas(k) => last'.val = IF InRefBucket(k) THEN 1 ELSE 0
             /\ NmGet(k) => last'.val = IF InRefBucket(k) THEN 1 ELSE NULL
             /\ NmRemove(k)
                   => /\ last'.ret = NANODS_OK <=> InRefBucket(k)
                      /\ ~InRefBucket(k)']_vars

\* the hash of "a" with seed 0 has been computed, 0xE40C292C, and nm_set has
\* put both keys into a 16-bucket map, in two buckets
C40_Witness ==
    /\ hashed.key = <<97>> /\ hashed.seed = 0
    /\ hashed.result = <<58380, 10540>>
    /\ last.op = "nm_set" /\ last.ret = NANODS_OK
    /\ map.bucket_count = 16
    /\ \A k \in Keys : InRefBucket(k)
    /\ RefBucket(Key(1)) # RefBucket(Key(2))

=============================================================================
